---- MODULE Spec2Model ----
(***************************************************************************)
(* A model of the uncovr endpoint-registration and request-dispatch        *)
(* engine: parameter stores (server/params.rs), the request context        *)
(* (context/context.rs), the response envelope (api/response.rs) and the   *)
(* registrar / dispatcher (server/builder.rs, server/endpoint.rs) and the   *)
(* tower middleware (middleware/auth.rs, rate_limit.rs, request_id.rs).    *)
(*                                                                         *)
(* Strings whose content matters (parameter values) are sequences of       *)
(* one-character strings, so that parsing is computed and not assumed.     *)
(***************************************************************************)
EXTENDS Integers, Sequences, FiniteSets, TLC

VARIABLES
    pstore,     \* params.rs: the Path / Query store under test
    presult,    \* params.rs: outcome of the last accessor call on pstore
    envelope,   \* response.rs: the ApiResponse value a handler produced
    wire,       \* response.rs: the wire response it was converted to
    cx,         \* context.rs: a Context (its attribute bag) under test
    cxresult,   \* context.rs: outcome of the last state / try_state call
    phase,      \* builder.rs: "building", "built" or "panicked"
    router,     \* builder.rs: ServerBuilder.router, path -> verb -> entry
    nreg,       \* number of register() calls made so far
    pc,         \* position of the request in flight
    request,    \* the request in flight
    ctx,        \* the Context handed to the handler for this request
    jsonx,      \* outcome of the axum::Json extractor for this request
    invoked,    \* the endpoint whose handler was invoked for this request
    response,   \* the wire response of this request
    openapi,    \* builder.rs: ServerBuilder.openapi
    doc,        \* builder.rs: the document build() finished, once built
    listener,   \* builder.rs: the TcpListener of Server::serve
    fallback,   \* the layers wrapped around the router's fallback
    nlayer,     \* number of with_state() / layer() calls made so far
    pending,    \* the layers the request in flight has still to enter
    entered,    \* the layers it entered that act on the response
    inner,      \* the request as the innermost service entered sees it
    svc,        \* middleware: the tower service under test
    tasks,      \* middleware: the requests going through svc
    store,      \* rate_limit.rs: RateLimitStore.requests
    now,        \* rate_limit.rs: the reading of Instant::now()
    admitted,   \* rate_limit.rs: per key, every time a request was admitted
    conns,      \* builder.rs: requests served concurrently by one route
    address,    \* builder.rs: ServerBuilder.address
    config,     \* builder.rs: ServerBuilder.config
    calls,      \* the bind / with_config / with_openapi calls made, in call order
    server,     \* builder.rs: Server.address, once built
    schemes,    \* builder.rs: components.security_schemes of the document
    route,      \* endpoint.rs: the Route an endpoint's route() is building
    pbuilder    \* endpoint.rs: the ParamBuilder borrowing it, if any

vars == <<pstore, presult, envelope, wire, cx, cxresult,
          phase, router, nreg, pc, request, ctx, jsonx, invoked, response,
          openapi, doc, listener, fallback, nlayer, pending, entered, inner,
          svc, tasks, store, now, admitted, conns,
          address, config, calls, server, schemes, route, pbuilder>>

paramVars == <<pstore, presult>>
respVars == <<envelope, wire>>
cxVars == <<cx, cxresult>>
serverVars == <<phase, router, nreg, pc, request, ctx, jsonx, invoked, response,
                openapi, doc, listener, fallback, nlayer, pending, entered, inner,
                address, config, calls, server, schemes>>
builderVars == <<openapi, fallback, nlayer>>
flightVars == <<pending, entered, inner>>
svcVars == <<svc, tasks>>
limiterVars == <<store, now, admitted>>
connVars == <<conns>>
cfgVars == <<address, config, calls, server, schemes>>
routeVars == <<route, pbuilder>>

----------------------------------------------------------------------------
(* Bounds *)

\* longest enumerated raw parameter value
MaxLen == 2

\* most register() calls on one builder
MaxRoutes == 2

\* with_state() and layer() calls made on one builder
MaxLayers == 2

\* calls made on one builder before build()
MaxCalls == 4

\* descriptors declared on one Route
MaxParams == 3

\* readings of the clock
MaxTime == 3

----------------------------------------------------------------------------
(* Option / Result *)

None == <<"None">>

Some(v) == <<"Some", v>>

Ok(v) == <<"Ok", v>>

Err(e) == <<"Err", e>>

IsSome(o) == o[1] = "Some"

IsOk(r) == r[1] = "Ok"

----------------------------------------------------------------------------
(* Raw strings *)

Alphabet == {"0", "1", "9", "+", "-", "x"}

Digits == {"0", "1", "2", "3", "4", "5", "6", "7", "8", "9"}

DigitVal(c) ==
    CASE c = "0" -> 0 [] c = "1" -> 1 [] c = "2" -> 2 [] c = "3" -> 3
      [] c = "4" -> 4 [] c = "5" -> 5 [] c = "6" -> 6 [] c = "7" -> 7
      [] c = "8" -> 8 [] c = "9" -> 9

StringsUpTo(n) == UNION {[1..k -> Alphabet] : k \in 0..n}

S_true == <<"t", "r", "u", "e">>

S_false == <<"f", "a", "l", "s", "e">>

\* values at the edges of the narrow integer types and of bool
EdgeValues ==
    { S_true, S_false, <<"T", "r", "u", "e">>, <<"t", "r", "u">>,
      <<"4", "2">>, <<"2", "5", "5">>, <<"2", "5", "6">>,
      <<"1", "2", "7">>, <<"1", "2", "8">>,
      <<"-", "1", "2", "8">>, <<"-", "1", "2", "9">>,
      <<"0", "0", "7">>, <<"+", "2", "5", "5">>, <<"-", "0">> }

RawValues == StringsUpTo(MaxLen) \cup EdgeValues

Tail2(s) == SubSeq(s, 2, Len(s))

----------------------------------------------------------------------------
(* FromStr for the scalar target types (core::num, core::str) *)

TargetTypes == {"u8", "i8", "u32", "i32", "u64", "i64", "bool", "String"}

IsSigned(T) == T \in {"i8", "i32", "i64"}

\* largest magnitude of a non-negative / negative value, as decimal digits
MaxDigits(T, neg) ==
    CASE T = "u8" -> <<"2", "5", "5">>
      [] T = "i8" -> IF neg THEN <<"1", "2", "8">> ELSE <<"1", "2", "7">>
      [] T = "u32" -> <<"4", "2", "9", "4", "9", "6", "7", "2", "9", "5">>
      [] T = "i32" -> IF neg THEN <<"2", "1", "4", "7", "4", "8", "3", "6", "4", "8">>
                             ELSE <<"2", "1", "4", "7", "4", "8", "3", "6", "4", "7">>
      [] T = "u64" -> <<"1", "8", "4", "4", "6", "7", "4", "4", "0", "7",
                        "3", "7", "0", "9", "5", "5", "1", "6", "1", "5">>
      [] T = "i64" -> IF neg THEN <<"9", "2", "2", "3", "3", "7", "2", "0", "3", "6",
                                    "8", "5", "4", "7", "7", "5", "8", "0", "8">>
                             ELSE <<"9", "2", "2", "3", "3", "7", "2", "0", "3", "6",
                                    "8", "5", "4", "7", "7", "5", "8", "0", "7">>

RECURSIVE StripZeros(_)
StripZeros(ds) ==
    IF Len(ds) > 1 /\ ds[1] = "0" THEN StripZeros(Tail2(ds)) ELSE ds

RECURSIVE DigitsLeq(_, _)
\* a <= b for two digit strings of equal length
DigitsLeq(a, b) ==
    IF a = <<>> THEN TRUE
    ELSE IF DigitVal(a[1]) < DigitVal(b[1]) THEN TRUE
    ELSE IF DigitVal(a[1]) > DigitVal(b[1]) THEN FALSE
    ELSE DigitsLeq(Tail2(a), Tail2(b))

FitsIn(ds, max) ==
    LET d == StripZeros(ds) IN
    \/ Len(d) < Len(max)
    \/ Len(d) = Len(max) /\ DigitsLeq(d, max)

RECURSIVE Horner(_, _)
Horner(acc, ds) ==
    IF ds = <<>> THEN acc ELSE Horner(acc * 10 + DigitVal(ds[1]), Tail2(ds))

\* <iN / uN as FromStr>::from_str
ParseInt(T, s) ==
    IF s = <<>> THEN Err("Empty")
    ELSE IF Len(s) = 1 /\ s[1] \in {"+", "-"} THEN Err("InvalidDigit")
    ELSE
      LET neg == s[1] = "-" /\ IsSigned(T)
          ds == IF s[1] = "+" \/ neg THEN Tail2(s) ELSE s
      IN  IF \E i \in 1..Len(ds) : ds[i] \notin Digits THEN Err("InvalidDigit")
          ELSE IF ~FitsIn(ds, MaxDigits(T, neg))
               THEN Err(IF neg THEN "NegOverflow" ELSE "PosOverflow")
          ELSE Ok(IF neg THEN 0 - Horner(0, ds) ELSE Horner(0, ds))

\* <bool as FromStr>::from_str
ParseBool(s) ==
    IF s = S_true THEN Ok(TRUE)
    ELSE IF s = S_false THEN Ok(FALSE)
    ELSE Err("ParseBoolError")

\* str::parse::<T>
FromStr(T, s) ==
    CASE T = "bool" -> ParseBool(s)
      [] T = "String" -> Ok(s)
      [] OTHER -> ParseInt(T, s)

\* std::any::type_name::<T>()
type_name(T) == IF T = "String" THEN "alloc::string::String" ELSE T

----------------------------------------------------------------------------
(* ParamStore: Path and Query (server/params.rs) *)

Keys == {"id", "page"}

LookupKeys == Keys \cup {"missing"}

\* HashMap<String, String> over the keys above
ParamMaps(vals) == UNION {[D -> vals] : D \in SUBSET Keys}

\* Path::empty() in place of the captured map
Path_new_dropping(params) == [kind |-> "Path", params |-> <<>>]

Path_new(params) == [kind |-> "Path", params |-> params]

Query_new(params) == [kind |-> "Query", params |-> params]

Path_empty == [kind |-> "Path", params |-> <<>>]

Query_empty == [kind |-> "Query", params |-> <<>>]

Path_get(self, key) ==
    IF key \in DOMAIN self.params THEN Some(self.params[key]) ELSE None

Query_get(self, key) ==
    IF key \in DOMAIN self.params THEN Some(self.params[key]) ELSE None

Missing(key) == [kind |-> "Missing", key |-> key]

InvalidType(key, value, expected) ==
    [kind |-> "InvalidType", key |-> key, value |-> value, expected |-> expected]

\* a value that fails to parse reported like an absent one
Path_parse_conflating(self, key, T) ==
    IF key \notin DOMAIN self.params THEN Err(Missing(key))
    ELSE LET r == FromStr(T, self.params[key])
         IN  IF IsOk(r) THEN r ELSE Err(Missing(key))

Path_parse(self, key, T) ==
    IF key \notin DOMAIN self.params THEN Err(Missing(key))
    ELSE LET value == self.params[key]
             r == FromStr(T, value)
         IN  IF IsOk(r) THEN r ELSE Err(InvalidType(key, value, type_name(T)))

Query_parse(self, key, T) ==
    IF key \notin DOMAIN self.params THEN Err(Missing(key))
    ELSE LET value == self.params[key]
             r == FromStr(T, value)
         IN  IF IsOk(r) THEN r ELSE Err(InvalidType(key, value, type_name(T)))

\* every integer accessor parsing as u64
Path_get_T_unsigned(self, key, T) ==
    IF key \notin DOMAIN self.params THEN None
    ELSE LET r == FromStr(IF T = "bool" THEN T ELSE "u64", self.params[key])
         IN  IF IsOk(r) THEN Some(r[2]) ELSE None

\* get_u64 / get_i64 / get_u32 / get_i32 / get_bool
Path_get_T(self, key, T) ==
    IF key \notin DOMAIN self.params THEN None
    ELSE LET r == FromStr(T, self.params[key])
         IN  IF IsOk(r) THEN Some(r[2]) ELSE None

Query_get_T(self, key, T) ==
    IF key \notin DOMAIN self.params THEN None
    ELSE LET r == FromStr(T, self.params[key])
         IN  IF IsOk(r) THEN Some(r[2]) ELSE None

Store_get(self, key) ==
    IF self.kind = "Path" THEN Path_get(self, key) ELSE Query_get(self, key)

----------------------------------------------------------------------------
(* Context and its attribute bag (context/context.rs) *)

\* types a value may be stored under in http::Extensions
StateTypes == {"AppState", "AuthUser", "Claims"}

StateValues == {"v1", "v2"}

\* an Extensions map holds at most one value per type
Bags == UNION {[D -> StateValues] : D \in SUBSET StateTypes}

Extensions_new == <<>>

Extensions_get(ext, S) == IF S \in DOMAIN ext THEN Some(ext[S]) ELSE None

Context(req, headers, path, query, extensions) ==
    [req |-> req, headers |-> headers, path |-> path, query |-> query,
     extensions |-> extensions]

Panic(msg) == <<"Panic", msg>>

Returned(v) == <<"Returned", v>>

\* unwrap_or on a missing value instead of expect
Context_state_defaulting(self, S) ==
    LET o == Extensions_get(self.extensions, S)
    IN  IF IsSome(o) THEN Returned(o[2]) ELSE Returned("v1")

\* Option::cloned().expect(..)
Context_state(self, S) ==
    LET o == Extensions_get(self.extensions, S)
    IN  IF IsSome(o) THEN Returned(o[2])
        ELSE Panic("State not found. Did you forget to call .with_state() on the server builder?")

Context_try_state(self, S) == Extensions_get(self.extensions, S)

----------------------------------------------------------------------------
(* ApiResponse and its conversion to a wire response (api/response.rs) *)

SuccessTags == {"Ok", "Created"}

SimpleErrorTags ==
    {"BadRequest", "Unauthorized", "Forbidden", "NotFound", "Conflict",
     "UnprocessableEntity", "InternalError", "ServiceUnavailable"}

DetailTags == {"BadRequestWithDetails", "UnprocessableEntityWithDetails"}

ApiTags == SuccessTags \cup {"NoContent"} \cup SimpleErrorTags \cup DetailTags

\* payloads of the success type T; the last one has a failing Serialize impl
Payloads == {"unit", "user1", "user2", "unserializable"}

\* serde::Serialize::serialize into JSON
Serialize(v) == IF v = "unserializable" THEN Err("serialize error") ELSE Ok(v)

Messages == {"", "User not found", "Email is required", "Resource conflict"}

ErrorCodes == {"user_not_found", "validation_failed"}

\* ErrorDetails::new / ErrorDetails::with_details
ErrorDetails_new(error, message) ==
    [error |-> error, message |-> message, details |-> None]

ErrorDetails_with_details(error, message, details) ==
    [error |-> error, message |-> message, details |-> Some(details)]

DetailValues ==
    {ErrorDetails_new(e, m) : e \in ErrorCodes, m \in Messages}
      \cup {ErrorDetails_with_details(e, m, "fields") : e \in ErrorCodes, m \in Messages}

ApiResponses ==
    {[tag |-> t, data |-> d] : t \in SuccessTags, d \in Payloads}
      \cup {[tag |-> "NoContent"]}
      \cup {[tag |-> t, msg |-> m] : t \in SimpleErrorTags, m \in Messages}
      \cup {[tag |-> t, details |-> d] : t \in DetailTags, d \in DetailValues}

EmptyBody == <<>>

JsonBody(v) == <<"json", v>>

TextBody(t) == <<"text", t>>

\* headers: what a layer adds to those the body type implies
WireResponse(status, body) == [status |-> status, body |-> body, headers |-> <<>>]

\* #[derive(Serialize)] struct SimpleError { error, message }
SimpleError(error, message) == [error |-> error, message |-> message]

\* #[derive(Serialize)] ErrorDetails, details skipped when None
ErrorDetails_json(d) ==
    IF IsSome(d.details)
    THEN [error |-> d.error, message |-> d.message, details |-> d.details[2]]
    ELSE [error |-> d.error, message |-> d.message]

\* a serialization failure answered with a bare status
Json_into_response_bare(ser) ==
    IF IsOk(ser)
    THEN WireResponse(200, JsonBody(ser[2]))
    ELSE WireResponse(500, EmptyBody)

\* axum::Json<T>::into_response
Json_into_response(ser) ==
    IF IsOk(ser)
    THEN WireResponse(200, JsonBody(ser[2]))
    ELSE WireResponse(500, TextBody(ser[2]))

\* the status of the inner response kept
WithStatus_keeping(status, res) == res

\* (StatusCode, R)::into_response: the status of R is overwritten
WithStatus(status, res) == [res EXCEPT !.status = status]

\* StatusCode::into_response
StatusCode_into_response(status) == WireResponse(status, EmptyBody)

ApiResponse_into_response(self) ==
    CASE self.tag = "Ok" -> WithStatus(200, Json_into_response(Serialize(self.data)))
      [] self.tag = "Created" -> WithStatus(201, Json_into_response(Serialize(self.data)))
      [] self.tag = "NoContent" -> StatusCode_into_response(204)
      [] self.tag = "BadRequest" ->
           WithStatus(400, Json_into_response(Ok(SimpleError("bad_request", self.msg))))
      [] self.tag = "BadRequestWithDetails" ->
           WithStatus(400, Json_into_response(Ok(ErrorDetails_json(self.details))))
      [] self.tag = "Unauthorized" ->
           WithStatus(401, Json_into_response(Ok(SimpleError("unauthorized", self.msg))))
      [] self.tag = "Forbidden" ->
           WithStatus(403, Json_into_response(Ok(SimpleError("forbidden", self.msg))))
      [] self.tag = "NotFound" ->
           WithStatus(404, Json_into_response(Ok(SimpleError("not_found", self.msg))))
      [] self.tag = "Conflict" ->
           WithStatus(409, Json_into_response(Ok(SimpleError("conflict", self.msg))))
      [] self.tag = "UnprocessableEntity" ->
           WithStatus(422, Json_into_response(Ok(SimpleError("unprocessable_entity", self.msg))))
      [] self.tag = "UnprocessableEntityWithDetails" ->
           WithStatus(422, Json_into_response(Ok(ErrorDetails_json(self.details))))
      [] self.tag = "InternalError" ->
           WithStatus(500, Json_into_response(Ok(SimpleError("internal_error", self.msg))))
      [] self.tag = "ServiceUnavailable" ->
           WithStatus(503, Json_into_response(Ok(SimpleError("service_unavailable", self.msg))))

----------------------------------------------------------------------------
(* Routes and endpoints (server/endpoint.rs) *)

HttpMethod == {"GET", "POST", "PUT", "PATCH", "DELETE", "OPTIONS", "HEAD"}

HttpMethod_as_str(m) ==
    CASE m = "GET" -> "get" [] m = "POST" -> "post" [] m = "PUT" -> "put"
      [] m = "PATCH" -> "patch" [] m = "DELETE" -> "delete"
      [] m = "OPTIONS" -> "options" [] m = "HEAD" -> "head"

Route_new(method, path) ==
    [path |-> path, method |-> method, query_params |-> <<>>, path_params |-> <<>>]

S_users == <<"u", "s", "e", "r", "s">>

S_echo == <<"e", "c", "h", "o">>

S_other == <<"o", "t", "h", "e", "r">>

S_docs == <<"d", "o", "c", "s">>

S_openapi_json == <<"o", "p", "e", "n", "a", "p", "i", ".", "j", "s", "o", "n">>

Lit(s) == <<"lit", s>>

Capture(name) == <<"param", name>>

RoutePaths == {"/users/:id", "/echo"}

\* the segments of a path template
Segments(path) ==
    CASE path = "/users/:id" -> <<Lit(S_users), Capture("id")>>
      [] path = "/echo" -> <<Lit(S_echo)>>
      [] path = "/docs" -> <<Lit(S_docs)>>
      [] path = "/openapi.json" -> <<Lit(S_openapi_json)>>

\* the endpoints an application may register: handler identity and route()
Endpoints ==
    { [id |-> "GetUser",     route |-> Route_new("GET", "/users/:id")],
      [id |-> "GetUserV2",   route |-> Route_new("GET", "/users/:id")],
      [id |-> "PutUser",     route |-> Route_new("PUT", "/users/:id")],
      [id |-> "PatchUser",   route |-> Route_new("PATCH", "/users/:id")],
      [id |-> "DeleteUser",  route |-> Route_new("DELETE", "/users/:id")],
      [id |-> "HeadUser",    route |-> Route_new("HEAD", "/users/:id")],
      [id |-> "GetEcho",     route |-> Route_new("GET", "/echo")],
      [id |-> "PostEcho",    route |-> Route_new("POST", "/echo")],
      [id |-> "OptionsEcho", route |-> Route_new("OPTIONS", "/echo")] }

----------------------------------------------------------------------------
(* Building a Route and a Meta (server/endpoint.rs)                        *)

\* Route::query: a QueryParam pushed, and a ParamBuilder for its index
Route_query(self, name) ==
    [self EXCEPT !.query_params =
        Append(@, [name |-> name, description |-> None, required |-> FALSE])]

\* Route::path_param: a PathParam pushed, and a ParamBuilder for its index
Route_path_param(self, name) ==
    [self EXCEPT !.path_params =
        Append(@, [name |-> name, description |-> None, required |-> FALSE])]

\* Route::param
Route_param(self, name, description) ==
    [self EXCEPT !.path_params =
        Append(@, [name |-> name, description |-> Some(description), required |-> TRUE])]

\* ParamType::Query(idx) / ParamType::Path(idx); idx counts from 0
ParamBuilder(kind, idx) == [kind |-> kind, idx |-> idx]

\* Vec::get_mut(idx) and the assignment to the field of the element found
Vec_set(v, idx, field, value) ==
    IF idx + 1 \in DOMAIN v
    THEN [v EXCEPT ![idx + 1] = [@ EXCEPT ![field] = value]]
    ELSE v

\* every descriptor of the list marked required
ParamBuilder_required_all(rt, pb) ==
    IF pb.kind = "Query"
    THEN [rt EXCEPT !.query_params = [i \in DOMAIN @ |-> [@[i] EXCEPT !.required = TRUE]]]
    ELSE [rt EXCEPT !.path_params = [i \in DOMAIN @ |-> [@[i] EXCEPT !.required = TRUE]]]

\* ParamBuilder::required
ParamBuilder_required(rt, pb) ==
    IF pb.kind = "Query"
    THEN [rt EXCEPT !.query_params = Vec_set(@, pb.idx, "required", TRUE)]
    ELSE [rt EXCEPT !.path_params = Vec_set(@, pb.idx, "required", TRUE)]

\* ParamBuilder::desc
ParamBuilder_desc(rt, pb, description) ==
    IF pb.kind = "Query"
    THEN [rt EXCEPT !.query_params = Vec_set(@, pb.idx, "description", Some(description))]
    ELSE [rt EXCEPT !.path_params = Vec_set(@, pb.idx, "description", Some(description))]

\* the SecurityScheme variants register() and build() match on
SecuritySchemes == {"Bearer", "Basic", "ApiKey", "OAuth2"}

\* Meta::new, with the security list register() reads from it
Meta_new ==
    [summary |-> None, description |-> None, tags |-> <<>>, deprecated |-> FALSE,
     response_config |-> None, security |-> <<>>]

\* Meta::summary
Meta_summary(self, text) == [self EXCEPT !.summary = Some(text)]

\* Meta::tag
Meta_tag(self, tag) == [self EXCEPT !.tags = Append(@, tag)]

\* Meta::deprecated
Meta_deprecated(self) == [self EXCEPT !.deprecated = TRUE]

\* Meta::responses
Meta_responses(self, callback) == [self EXCEPT !.response_config = Some(callback)]

\* Endpoint::meta: Meta::new() unless the endpoint overrides it
Endpoint_meta(E) == IF "meta" \in DOMAIN E THEN E.meta ELSE Meta_new

\* endpoints that declare parameters and metadata
DocumentedEndpoints ==
    { [id |-> "ListUsers",
       route |-> ParamBuilder_desc(
                    Route_query(
                      ParamBuilder_required(Route_query(Route_new("GET", "/users"), "page"),
                                            ParamBuilder("Query", 0)),
                      "limit"),
                    ParamBuilder("Query", 1), "page size"),
       meta |-> [Meta_deprecated(Meta_tag(Meta_summary(Meta_new, "List users"), "users"))
                   EXCEPT !.security = <<"Bearer", "ApiKey">>]],
      [id |-> "ShowUser",
       route |-> ParamBuilder_required(
                    Route_path_param(Route_query(Route_new("GET", "/users/:id"), "fields"),
                                     "id"),
                    ParamBuilder("Path", 0)),
       meta |-> [Meta_responses(Meta_new, "retitle") EXCEPT !.security = <<"OAuth2">>]],
      [id |-> "PostEcho", route |-> Route_new("POST", "/echo")] }

----------------------------------------------------------------------------
(* The operation register() documents a route with (server/builder.rs)     *)

ParamInfo(param) ==
    [name |-> param.name, description |-> param.description, required |-> param.required]

param_info_to_query_param(param) ==
    [location |-> "query", name |-> param.name, description |-> param.description,
     required |-> param.required, schema |-> "string"]

security_scheme_name(scheme) ==
    CASE scheme = "Bearer" -> "bearerAuth"
      [] scheme = "Basic" -> "basicAuth"
      [] scheme = "ApiKey" -> "apiKeyAuth"
      [] scheme = "OAuth2" -> "oauth2Auth"

\* aide: the operation a route starts with, before the closure runs
Operation_default ==
    [parameters |-> <<>>, summary |-> None, description |-> None, tags |-> <<>>,
     security |-> <<>>, deprecated |-> FALSE, responses |-> {}]

\* the callbacks an application passes to Meta::responses
Callbacks == {"document_404", "retitle"}

\* callback(op)
ResponseCallback(callback, op) ==
    CASE callback = "document_404" -> [op EXCEPT !.responses = @ \cup {"404"}]
      [] callback = "retitle" -> [op EXCEPT !.summary = Some("custom")]

\* the second closure of every arm of register(): |mut op| { .. op }
RegisterOperation(E) ==
    LET route_def == E.route
        meta == Endpoint_meta(E)
        summary == IF IsSome(meta.summary) THEN meta.summary[2] ELSE ""
        op1 == [Operation_default EXCEPT !.parameters =
                  [i \in 1..Len(route_def.query_params) |->
                      param_info_to_query_param(ParamInfo(route_def.query_params[i]))]]
        op2 == [op1 EXCEPT !.summary = Some(summary)]
        op3 == IF IsSome(meta.description)
               THEN [op2 EXCEPT !.description = meta.description]
               ELSE op2
        op4 == [op3 EXCEPT !.tags = meta.tags]
        op5 == [op4 EXCEPT !.security =
                  [i \in 1..Len(meta.security) |-> security_scheme_name(meta.security[i])]]
    IN  IF IsSome(meta.response_config)
        THEN ResponseCallback(meta.response_config[2], op5)
        ELSE op5

----------------------------------------------------------------------------
(* Socket addresses (std::net) and the application config                  *)

\* "127.0.0.1:3000"
Addr_default == <<"1", "2", "7", ".", "0", ".", "0", ".", "1", ":", "3", "0", "0", "0">>

\* "0.0.0.0:8080"
Addr_any == <<"0", ".", "0", ".", "0", ".", "0", ":", "8", "0", "8", "0">>

\* "localhost:3000"
Addr_localhost == <<"l", "o", "c", "a", "l", "h", "o", "s", "t", ":", "3", "0", "0", "0">>

RECURSIVE Split(_, _)
\* str::split(sep)
Split(s, sep) ==
    IF \A i \in 1..Len(s) : s[i] # sep THEN <<s>>
    ELSE LET i == CHOOSE i \in 1..Len(s) : s[i] = sep /\ \A j \in 1..(i - 1) : s[j] # sep
         IN  <<SubSeq(s, 1, i - 1)>> \o Split(SubSeq(s, i + 1, Len(s)), sep)

\* an octet of an IPv4 address: one to three digits, no leading zero
ParseOctet(ds) ==
    IF ds = <<>> \/ Len(ds) > 3 \/ (\E i \in 1..Len(ds) : ds[i] \notin Digits)
         \/ (Len(ds) > 1 /\ ds[1] = "0")
    THEN Err("AddrParseError")
    ELSE IF Horner(0, ds) > 255 THEN Err("AddrParseError") ELSE Ok(Horner(0, ds))

\* a port: digits of a u16
ParsePort(ds) ==
    IF ds = <<>> \/ (\E i \in 1..Len(ds) : ds[i] \notin Digits)
         \/ ~FitsIn(ds, <<"6", "5", "5", "3", "5">>)
    THEN Err("AddrParseError")
    ELSE Ok(Horner(0, ds))

\* every text taken for the default address
SocketAddr_parse_default(s) == Ok([ip |-> <<127, 0, 0, 1>>, port |-> 3000])

\* <SocketAddr as FromStr>::from_str, the IPv4 form
SocketAddr_parse(s) ==
    LET hp == Split(s, ":")
    IN  IF Len(hp) # 2 THEN Err("AddrParseError")
        ELSE LET os == Split(hp[1], ".")
                 octets == [i \in 1..Len(os) |-> ParseOctet(os[i])]
                 port == ParsePort(hp[2])
             IN  IF Len(os) # 4 \/ (\E i \in 1..Len(os) : ~IsOk(octets[i])) \/ ~IsOk(port)
                 THEN Err("AddrParseError")
                 ELSE Ok([ip |-> [i \in 1..4 |-> octets[i][2]], port |-> port[2]])

\* the fields of the config that with_config() and build() read
App(bind, docs) ==
    [bind |-> bind, docs |-> docs, docs_path |-> "/docs", spec_path |-> "/openapi.json"]

----------------------------------------------------------------------------
(* The handler's Request type: struct TestRequest { name: String } *)

JStr(s) == <<"str", s>>

JNum(n) == <<"num", n>>

\* wire bodies: no bytes, bytes that are not JSON, or a JSON object
Bodies ==
    { [kind |-> "empty"],
      [kind |-> "garbage"],
      [kind |-> "json", value |-> <<>>],
      [kind |-> "json", value |-> [name |-> JNum(5)]],
      [kind |-> "json", value |-> [name |-> JStr("hi")]],
      [kind |-> "json", value |-> [name |-> JStr("hi"), extra |-> JNum(1)]] }

\* #[derive(Default)]
Request_default == [name |-> ""]

\* serde_json::from_slice::<TestRequest>
Request_from_slice(body) ==
    IF body.kind # "json" THEN Err("Syntax")
    ELSE IF "name" \notin DOMAIN body.value THEN Err("Data")
    ELSE IF body.value.name[1] # "str" THEN Err("Data")
    ELSE Ok([name |-> body.value.name[2]])

----------------------------------------------------------------------------
(* The HTTP engine: matching, extractors, rejections *)

Verbs == {"GET", "POST", "PUT", "PATCH", "DELETE", "OPTIONS"}

HeaderMaps == {<<>>, [content_type |-> "application/json"]}

HeaderMap_default == <<>>

PathValues == {<<"4", "2">>, <<"x">>}

RequestPaths == {<<S_users, v>> : v \in PathValues} \cup {<<S_echo>>, <<S_other>>}

QueryStrings ==
    { <<>>,
      <<<<"page", <<"2">>>>>>,
      <<<<"page", <<"1">>>>, <<"page", <<"2">>>>, <<"id", <<"9">>>>>> }

RequestBags == {Extensions_new, [AuthUser |-> "v1"]}

JsonHeaders == [content_type |-> "application/json"]

ValidBody == [kind |-> "json", value |-> [name |-> JStr("hi")]]

\* every verb and path, with every body and content type, or with every
\* query string and attribute bag
Requests ==
    [verb : Verbs, path : RequestPaths, query : {<<>>}, body : Bodies,
     headers : HeaderMaps, extensions : {Extensions_new}]
      \cup [verb : Verbs, path : RequestPaths, query : QueryStrings, body : {ValidBody},
            headers : {JsonHeaders}, extensions : RequestBags]

\* matchit: a template matches a path segment by segment
Matches(path, segs) ==
    LET t == Segments(path) IN
    /\ Len(t) = Len(segs)
    /\ \A i \in 1..Len(t) : t[i][1] = "lit" => t[i][2] = segs[i]

\* axum::extract::Path<HashMap<String, String>>
Extract_Path(path, segs) ==
    LET t == Segments(path)
        names == {t[i][2] : i \in {j \in 1..Len(t) : t[j][1] = "param"}}
    IN  [n \in names |-> segs[CHOOSE i \in 1..Len(t) : t[i] = Capture(n)]]

RECURSIVE Extract_Query(_)
\* axum::extract::Query<HashMap<String, String>>: a later pair replaces an earlier one
Extract_Query(pairs) ==
    IF pairs = <<>> THEN <<>>
    ELSE LET init == Extract_Query(SubSeq(pairs, 1, Len(pairs) - 1))
             last == pairs[Len(pairs)]
         IN  [k \in DOMAIN init \cup {last[1]} |->
                 IF k = last[1] THEN last[2] ELSE init[k]]

\* a new, empty bag in place of the request's
ExtractExtensions_empty(parts) == Extensions_new

\* ExtractExtensions::from_request_parts: parts.extensions.clone()
ExtractExtensions(parts) == parts.extensions

json_content_type(headers) ==
    /\ "content_type" \in DOMAIN headers
    /\ headers.content_type = "application/json"

\* axum::Json<E::Request>::from_request
Extract_Json(req) ==
    IF ~json_content_type(req.headers) THEN Err("MissingJsonContentType")
    ELSE LET r == Request_from_slice(req.body)
         IN  IF IsOk(r) THEN r
             ELSE IF r[2] = "Data" THEN Err("JsonDataError")
             ELSE Err("JsonSyntaxError")

\* JsonRejection::into_response
JsonRejection_into_response(rej) ==
    CASE rej = "MissingJsonContentType" ->
           WireResponse(415, TextBody("Expected request with Content-Type: application/json"))
      [] rej = "JsonDataError" ->
           WireResponse(422, TextBody("Failed to deserialize the JSON body into the target type"))
      [] rej = "JsonSyntaxError" ->
           WireResponse(400, TextBody("Failed to parse the request body as JSON"))

----------------------------------------------------------------------------
(* Header values and maps (http::HeaderValue, http::HeaderMap) *)

\* a byte outside visible ASCII
Opaque == "0xff"

\* HeaderValue::to_str: an error when a byte is not visible ASCII
HeaderValue_to_str(v) ==
    IF \E i \in 1..Len(v) : v[i] = Opaque THEN Err("ToStrError") ELSE Ok(v)

HeaderMap_get(headers, name) ==
    IF name \in DOMAIN headers THEN Some(headers[name]) ELSE None

\* HeaderMap::insert replaces what the name held
HeaderMap_insert(headers, name, v) ==
    [n \in DOMAIN headers \cup {name} |-> IF n = name THEN v ELSE headers[n]]

\* Extensions::insert replaces the value of the type
Extensions_insert(ext, ty, v) ==
    [t \in DOMAIN ext \cup {ty} |-> IF t = ty THEN v ELSE ext[t]]

starts_with(s, p) == Len(s) >= Len(p) /\ SubSeq(s, 1, Len(p)) = p

\* headers.get(name).and_then(|v| v.to_str().ok())
HeaderText(headers, name) ==
    LET h == HeaderMap_get(headers, name)
    IN  IF IsSome(h) /\ IsOk(HeaderValue_to_str(h[2])) THEN Some(h[2]) ELSE None

----------------------------------------------------------------------------
(* BearerAuth (middleware/auth.rs) *)

S_Bearer == <<"B", "e", "a", "r", "e", "r", " ">>

T1 == <<"t", "1">>

T2 == <<"t", "2">>

BearerAuth_new(validator) == [kind |-> "BearerAuth", validator |-> validator]

\* the scheme of the header not looked at
BearerAuthService_token_any_scheme(headers) ==
    LET header == HeaderText(headers, "authorization")
    IN  IF IsSome(header) /\ Len(header[2]) >= Len(S_Bearer)
        THEN Some(SubSeq(header[2], Len(S_Bearer) + 1, Len(header[2])))
        ELSE None

\* BearerAuthService::call: the token after "Bearer ", if any
BearerAuthService_token(headers) ==
    LET header == HeaderText(headers, "authorization")
    IN  IF IsSome(header) /\ starts_with(header[2], S_Bearer)
        THEN Some(SubSeq(header[2], Len(S_Bearer) + 1, Len(header[2])))
        ELSE None

\* the closure token_validator(valid_tokens) returns
token_validator(valid_tokens, token) ==
    IF token \in valid_tokens THEN Ok("unit") ELSE Err("Invalid token")

Unauthorized_missing ==
    WireResponse(401, TextBody("Missing or invalid Authorization header. Expected: Bearer <token>"))

Unauthorized_failed(error) ==
    WireResponse(401, TextBody(<<"Authentication failed: ", error>>))

----------------------------------------------------------------------------
(* RateLimit (middleware/rate_limit.rs) *)

S_unknown == <<"u", "n", "k", "n", "o", "w", "n">>

RateLimit_new(max_requests, window) ==
    [kind |-> "RateLimit", max_requests |-> max_requests, window |-> window]

\* str::split(',').next(): the text before the first comma
FirstEntry(s) ==
    IF \E i \in 1..Len(s) : s[i] = ","
    THEN LET c == CHOOSE i \in 1..Len(s) :
                     s[i] = "," /\ \A j \in 1..(i - 1) : s[j] # ","
         IN  SubSeq(s, 1, c - 1)
    ELSE s

\* RateLimitService::call: the key the request is counted under
RateLimitService_ip(headers) ==
    LET s == HeaderText(headers, "x_forwarded_for")
    IN  IF IsSome(s) THEN FirstEntry(s[2]) ELSE S_unknown

\* Vec::retain(|&time| time > cutoff)
retain(requests, cutoff) == SelectSeq(requests, LAMBDA time : time > cutoff)

RateLimitStore_entry(st, key) == IF key \in DOMAIN st THEN st[key] ELSE <<>>

\* a request admitted when the key already holds max_requests timestamps
check_rate_limit_inclusive(self, st, key, t) ==
    LET kept == retain(RateLimitStore_entry(st, key), t - self.window)
        allowed == Len(kept) <= self.max_requests
    IN  [allowed |-> allowed,
         store |-> [k \in DOMAIN st \cup {key} |->
                      IF k = key THEN (IF allowed THEN Append(kept, t) ELSE kept)
                      ELSE st[k]]]

\* RateLimit::check_rate_limit, run under the store's mutex at instant t
check_rate_limit(self, st, key, t) ==
    LET kept == retain(RateLimitStore_entry(st, key), t - self.window)
        allowed == Len(kept) < self.max_requests
    IN  [allowed |-> allowed,
         store |-> [k \in DOMAIN st \cup {key} |->
                      IF k = key THEN (IF allowed THEN Append(kept, t) ELSE kept)
                      ELSE st[k]]]

TooManyRequests ==
    WireResponse(429, TextBody("Rate limit exceeded. Please try again later."))

\* the record of admissions, kept beside the store
Admit(adm, key, t) ==
    [k \in DOMAIN adm \cup {key} |->
        IF k = key THEN Append(RateLimitStore_entry(adm, key), t) ELSE adm[k]]

----------------------------------------------------------------------------
(* RequestId (middleware/request_id.rs) *)

RequestId_new == [kind |-> "RequestId", header_name |-> "x_request_id"]

RequestId_with_header(header_name) == [kind |-> "RequestId", header_name |-> header_name]

\* what Uuid::new_v4().to_string() may return
Uuids == {<<"u", "1">>, <<"u", "2">>}

\* an ID generated whatever the request carries
RequestIdService_request_id_fresh(headers, header_name, uuid) == uuid

\* RequestIdService::call: the existing ID, or a new one
RequestIdService_request_id(headers, header_name, uuid) ==
    LET existing_id == HeaderMap_get(headers, header_name)
    IN  IF IsSome(existing_id) THEN existing_id[2] ELSE uuid

----------------------------------------------------------------------------
(* ServerBuilder::register and the per-method dispatch closures            *)
(* (server/builder.rs)                                                     *)

BodyBranches == {"post", "put", "patch", "delete"}

\* the "delete" arm left out of the match
dispatch_branch_no_delete(method) ==
    IF method \in {"get", "post", "put", "patch"} THEN method ELSE "fallback"

\* the arm of "match method" taken by register
dispatch_branch(method) ==
    IF method \in {"get"} \cup BodyBranches THEN method ELSE "fallback"

\* the fallback arm filed with post_with
branch_verb_post_fallback(branch) ==
    CASE branch = "get" -> "GET" [] branch = "post" -> "POST"
      [] branch = "put" -> "PUT" [] branch = "patch" -> "PATCH"
      [] branch = "delete" -> "DELETE" [] branch = "fallback" -> "POST"

\* the verb under which the arm's routing function (get_with, post_with, ..)
\* files the closure
branch_verb(branch) ==
    CASE branch = "get" -> "GET" [] branch = "post" -> "POST"
      [] branch = "put" -> "PUT" [] branch = "patch" -> "PATCH"
      [] branch = "delete" -> "DELETE" [] branch = "fallback" -> "GET"

\* the get arm given the body extractor of the other arms
branch_decodes_get_too(branch) == branch \in BodyBranches \cup {"get"}

\* whether the arm's closure takes an axum::Json<E::Request> argument
branch_decodes(branch) == branch \in BodyBranches

\* layers: the layers wrapped around the route since it was added, in the
\* order they were applied
RouterEntry(E) ==
    [ep |-> E.id, method |-> E.route.method,
     branch |-> dispatch_branch(HttpMethod_as_str(E.route.method)),
     layers |-> <<>>, op |-> RegisterOperation(E)]

RouteKey(E) ==
    <<E.route.path, branch_verb(dispatch_branch(HttpMethod_as_str(E.route.method)))>>

\* a second handler for the verb of a path accepted
Overlaps_never(rt, E) == FALSE

\* Router::route panics when the path already has a handler for the verb
Overlaps(rt, E) == RouteKey(E) \in DOMAIN rt

ApiRouter_api_route(rt, E) ==
    [k \in DOMAIN rt \cup {RouteKey(E)} |->
        IF k = RouteKey(E) THEN RouterEntry(E) ELSE rt[k]]

Register(E) ==
    /\ phase = "building"
    /\ nreg < MaxRoutes
    /\ nreg' = nreg + 1
    /\ IF Overlaps(router, E)
       THEN phase' = "panicked" /\ router' = router
       ELSE phase' = phase /\ router' = ApiRouter_api_route(router, E)
    /\ UNCHANGED <<pc, request, ctx, jsonx, invoked, response>>
    /\ UNCHANGED <<doc, listener, builderVars, flightVars>>
    /\ UNCHANGED <<paramVars, routeVars, cfgVars, respVars, cxVars, svcVars, limiterVars, connVars>>

\* axum::Extension(value) as a layer
Extension(ty, value) == [kind |-> "Extension", ty |-> ty, value |-> value]

\* Router::layer wraps the routes the router holds when it is called
Router_layer(rt, layer) ==
    [k \in DOMAIN rt |-> [rt[k] EXCEPT !.layers = Append(@, layer)]]

\* ServerBuilder::with_state
WithState(S, state) ==
    /\ phase = "building"
    /\ nlayer < MaxLayers
    /\ nlayer' = nlayer + 1
    /\ router' = Router_layer(router, Extension(S, state))
    /\ fallback' = Append(fallback, Extension(S, state))
    /\ UNCHANGED <<phase, nreg, pc, request, ctx, jsonx, invoked, response>>
    /\ UNCHANGED <<openapi, doc, listener, flightVars>>
    /\ UNCHANGED <<paramVars, routeVars, cfgVars, respVars, cxVars, svcVars, limiterVars, connVars>>

\* ServerBuilder::layer
Layer(layer) ==
    /\ phase = "building"
    /\ nlayer < MaxLayers
    /\ nlayer' = nlayer + 1
    /\ router' = Router_layer(router, layer)
    /\ fallback' = Append(fallback, layer)
    /\ UNCHANGED <<phase, nreg, pc, request, ctx, jsonx, invoked, response>>
    /\ UNCHANGED <<openapi, doc, listener, flightVars>>
    /\ UNCHANGED <<paramVars, routeVars, cfgVars, respVars, cxVars, svcVars, limiterVars, connVars>>

\* ServerBuilder::with_openapi
ServerBuilder_with_openapi ==
    /\ phase = "building"
    /\ Len(calls) < MaxCalls
    /\ openapi' = Some("OpenApi")
    /\ calls' = Append(calls, [op |-> "with_openapi", arg |-> <<>>])
    /\ UNCHANGED <<phase, router, nreg, pc, request, ctx, jsonx, invoked, response>>
    /\ UNCHANGED <<doc, listener, fallback, nlayer, flightVars>>
    /\ UNCHANGED <<address, config, server, schemes>>
    /\ UNCHANGED <<paramVars, routeVars, respVars, cxVars, svcVars, limiterVars, connVars>>

\* the first with_openapi call of a builder
WithOpenApi == openapi = None /\ ServerBuilder_with_openapi

\* ServerBuilder::bind
Bind(addr) ==
    /\ phase = "building"
    /\ Len(calls) < MaxCalls
    /\ address' = addr
    /\ calls' = Append(calls, [op |-> "bind", arg |-> addr])
    /\ UNCHANGED <<phase, router, nreg, pc, request, ctx, jsonx, invoked, response>>
    /\ UNCHANGED <<openapi, doc, listener, fallback, nlayer, flightVars>>
    /\ UNCHANGED <<config, server, schemes>>
    /\ UNCHANGED <<paramVars, routeVars, respVars, cxVars, svcVars, limiterVars, connVars>>

\* ServerBuilder::with_config
WithConfig(c) ==
    /\ phase = "building"
    /\ Len(calls) < MaxCalls
    /\ address' = c.bind
    /\ openapi' = IF c.docs THEN Some("OpenApi") ELSE openapi
    /\ config' = Some(c)
    /\ calls' = Append(calls, [op |-> "with_config", arg |-> c])
    /\ UNCHANGED <<phase, router, nreg, pc, request, ctx, jsonx, invoked, response>>
    /\ UNCHANGED <<doc, listener, fallback, nlayer, flightVars>>
    /\ UNCHANGED <<server, schemes>>
    /\ UNCHANGED <<paramVars, routeVars, respVars, cxVars, svcVars, limiterVars, connVars>>

Router_merge(a, b) == [k \in DOMAIN a \cup DOMAIN b |-> IF k \in DOMAIN a THEN a[k] ELSE b[k]]

\* a router the application built apart: one documented route
Routers == {ApiRouter_api_route(<<>>, [id |-> "GetEcho", route |-> Route_new("GET", "/echo")])}

\* Router::nest: the routes of the nested router under the prefix
Router_nest(prefix, rt) ==
    [k \in {<<prefix \o j[1], j[2]>> : j \in DOMAIN rt} |->
        rt[CHOOSE j \in DOMAIN rt : <<prefix \o j[1], j[2]>> = k]]

\* Router::nest_service: the service under the prefix, for every verb
Router_nest_service(prefix, service) ==
    [k \in {<<prefix, "ANY">>} |->
        [ep |-> service, method |-> "ANY", branch |-> "service", layers |-> <<>>]]

\* axum panics when a merged or nested route is one the router already has
AddRoutes(added) ==
    /\ phase = "building"
    /\ nreg < MaxRoutes
    /\ nreg' = nreg + 1
    /\ IF DOMAIN added \cap DOMAIN router # {}
       THEN phase' = "panicked" /\ router' = router
       ELSE phase' = phase /\ router' = Router_merge(router, added)
    /\ UNCHANGED <<pc, request, ctx, jsonx, invoked, response>>
    /\ UNCHANGED <<doc, listener, builderVars, flightVars>>
    /\ UNCHANGED <<paramVars, routeVars, cfgVars, respVars, cxVars, svcVars, limiterVars, connVars>>

\* ServerBuilder::merge
Merge(rt) == AddRoutes(rt)

\* ServerBuilder::nest
Nest(path, rt) == AddRoutes(Router_nest(path, rt))

\* ServerBuilder::nest_service
NestService(path, service) == AddRoutes(Router_nest_service(path, service))

\* the routes of docs_router: route(), not api_route(), so undocumented
docs_router ==
    LET docs_path == IF IsSome(config) THEN config[2].docs_path ELSE "/docs"
        openapi_json_path == IF IsSome(config) THEN config[2].spec_path ELSE "/openapi.json"
    IN  [k \in {<<openapi_json_path, "GET">>, <<docs_path, "GET">>} |->
            [ep |-> IF k[1] = docs_path THEN "ui_handler" ELSE "serve_docs",
             method |-> "GET", branch |-> "docs", layers |-> <<>>]]

\* no operation moved into the document
finish_api_empty(rt) == {}

\* ApiRouter::finish_api: the operations api_route collected, one per
\* path and verb, moved into the document
finish_api(rt) ==
    {[path |-> k[1], verb |-> k[2], handler |-> rt[k].ep, operation |-> rt[k].op] :
        k \in {j \in DOMAIN rt : rt[j].branch # "service"}}

\* the schemes build() inserts into components.security_schemes
security_schemes == {"bearerAuth", "basicAuth", "apiKeyAuth"}

\* ServerBuilder::build, but for what becomes of the listener
ServerBuilder_build ==
    /\ phase = "building"
    /\ LET parsed == SocketAddr_parse(address)
       IN  IF ~IsOk(parsed)
           THEN /\ phase' = "panicked"
                /\ UNCHANGED <<doc, router, fallback, server, schemes>>
           ELSE /\ phase' = "built"
                /\ server' = Some(parsed[2])
                /\ IF IsSome(openapi)
                   THEN LET api == finish_api(router)
                        IN  /\ doc' = Some(api)
                            /\ schemes' = security_schemes
                            /\ router' = Router_layer(Router_merge(docs_router, router),
                                                      Extension("OpenApi", api))
                            /\ fallback' = Append(fallback, Extension("OpenApi", api))
                   ELSE UNCHANGED <<doc, router, fallback, schemes>>
    /\ UNCHANGED <<nreg, pc, request, ctx, jsonx, invoked, response>>
    /\ UNCHANGED <<openapi, nlayer, flightVars>>
    /\ UNCHANGED <<address, config, calls>>
    /\ UNCHANGED <<paramVars, routeVars, respVars, cxVars, svcVars, limiterVars, connVars>>

\* ServerBuilder::build
Build == ServerBuilder_build /\ listener' = listener

\* ServerBuilder::serve: self.build(), with Server::serve to follow
ServerBuilder_serve ==
    ServerBuilder_build /\ listener' = IF phase' = "built" THEN "binding" ELSE listener

\* Server::serve: TcpListener::bind, then axum::serve
Server_serve ==
    /\ phase = "built"
    /\ listener # "bound"
    /\ listener' = "bound"
    /\ UNCHANGED <<phase, router, nreg, pc, request, ctx, jsonx, invoked, response>>
    /\ UNCHANGED <<openapi, doc, fallback, nlayer, flightVars>>
    /\ UNCHANGED <<paramVars, routeVars, cfgVars, respVars, cxVars, svcVars, limiterVars, connVars>>

\* the templates of the router that match the request path
MatchingPaths(rt, r) == {k[1] : k \in {j \in DOMAIN rt : Matches(j[1], r.path)}}

Routed(rt, r) == \E p \in MatchingPaths(rt, r) : <<p, r.verb>> \in DOMAIN rt

RouteOf(rt, r) == CHOOSE k \in DOMAIN rt : Matches(k[1], r.path) /\ k[2] = r.verb

\* MethodRouter::merge_for_path keeps the fallback of the method router
\* added last to the path: the route that has the fewest layers
Newest(rt, r) ==
    CHOOSE k \in DOMAIN rt :
        /\ Matches(k[1], r.path)
        /\ \A j \in DOMAIN rt :
              Matches(j[1], r.path) => Len(rt[k].layers) <= Len(rt[j].layers)

\* the layers around the service the request is routed to: the route, the
\* fallback of the path's method router, or the router's fallback
LayersFor(rt, fb, r) ==
    IF Routed(rt, r) THEN rt[RouteOf(rt, r)].layers
    ELSE IF MatchingPaths(rt, r) # {} THEN rt[Newest(rt, r)].layers
    ELSE fb

\* a connection delivers a request to the listening server
Receive(r) ==
    /\ phase = "built"
    /\ listener = "bound"
    /\ pc = "idle"
    /\ pc' = "routing"
    /\ request' = Some(r)
    /\ inner' = Some(r)
    /\ pending' = LayersFor(router, fallback, r)
    /\ entered' = <<>>
    /\ ctx' = None
    /\ jsonx' = "none"
    /\ invoked' = None
    /\ response' = None
    /\ UNCHANGED <<phase, router, nreg, doc, listener, builderVars>>
    /\ UNCHANGED <<paramVars, routeVars, cfgVars, respVars, cxVars, svcVars, limiterVars, connVars>>

\* the call of the outermost layer not yet entered: the one applied last
EnterLayer(uuid) ==
    /\ pc = "routing"
    /\ pending # <<>>
    /\ LET layer == pending[Len(pending)]
           rest == SubSeq(pending, 1, Len(pending) - 1)
           req == inner[2]
       IN  IF layer.kind = "Extension"
           THEN /\ inner' = Some([req EXCEPT !.extensions =
                                     Extensions_insert(@, layer.ty, layer.value)])
                /\ pending' = rest
                /\ UNCHANGED <<pc, response, entered, limiterVars>>
           ELSE IF layer.kind = "BearerAuth"
           THEN LET token == BearerAuthService_token(req.headers)
                    checked == IF IsSome(token)
                               THEN token_validator(layer.validator, token[2])
                               ELSE Err("no token")
                IN  /\ IF IsOk(checked)
                       THEN pending' = rest /\ UNCHANGED <<pc, response>>
                       ELSE /\ pending' = <<>>
                            /\ pc' = "done"
                            /\ response' = Some(IF IsSome(token)
                                                THEN Unauthorized_failed(checked[2])
                                                ELSE Unauthorized_missing)
                    /\ UNCHANGED <<inner, entered, limiterVars>>
           ELSE IF layer.kind = "RateLimit"
           THEN LET key == RateLimitService_ip(req.headers)
                    out == check_rate_limit(layer, store, key, now)
                IN  /\ store' = out.store
                    /\ IF out.allowed
                       THEN /\ admitted' = Admit(admitted, key, now)
                            /\ pending' = rest
                            /\ UNCHANGED <<pc, response>>
                       ELSE /\ admitted' = admitted
                            /\ pending' = <<>>
                            /\ pc' = "done"
                            /\ response' = Some(TooManyRequests)
                    /\ UNCHANGED <<inner, entered, now>>
           ELSE LET id == RequestIdService_request_id(req.headers, layer.header_name, uuid)
                IN  /\ inner' = Some([req EXCEPT !.headers =
                                         HeaderMap_insert(@, layer.header_name, id)])
                    /\ entered' = Append(entered, [header_name |-> layer.header_name,
                                                   request_id |-> id])
                    /\ pending' = rest
                    /\ UNCHANGED <<pc, response, limiterVars>>
    /\ UNCHANGED <<phase, router, nreg, request, ctx, jsonx, invoked>>
    /\ UNCHANGED <<doc, listener, builderVars>>
    /\ UNCHANGED <<paramVars, routeVars, cfgVars, respVars, cxVars, svcVars, connVars>>

\* no template matches, or the template has no handler for the verb
Unrouted ==
    /\ pc = "routing"
    /\ pending = <<>>
    /\ ~Routed(router, request[2])
    /\ response' = Some(WireResponse(
           IF MatchingPaths(router, request[2]) = {} THEN 404 ELSE 405, EmptyBody))
    /\ pc' = "done"
    /\ UNCHANGED <<phase, router, nreg, request, ctx, jsonx, invoked>>
    /\ UNCHANGED <<doc, listener, builderVars, flightVars>>
    /\ UNCHANGED <<paramVars, routeVars, cfgVars, respVars, cxVars, svcVars, limiterVars, connVars>>

\* the closure of a get_with arm: no body extractor, Request::default()
DispatchNoBody ==
    /\ pc = "routing"
    /\ pending = <<>>
    /\ Routed(router, request[2])
    /\ LET r == inner[2]
           k == RouteOf(router, r)
       IN  /\ router[k].branch # "docs"
           /\ ~branch_decodes(router[k].branch)
           /\ ctx' = Some(Context(Request_default, HeaderMap_default,
                                  Path_new(Extract_Path(k[1], r.path)),
                                  Query_new(Extract_Query(r.query)),
                                  ExtractExtensions(r)))
           /\ invoked' = Some(router[k].ep)
    /\ pc' = "handling"
    /\ UNCHANGED <<phase, router, nreg, request, jsonx, response>>
    /\ UNCHANGED <<doc, listener, builderVars, flightVars>>
    /\ UNCHANGED <<paramVars, routeVars, cfgVars, respVars, cxVars, svcVars, limiterVars, connVars>>

\* the closure of a post_with / put_with / patch_with / delete_with arm:
\* the handler runs only when every extractor, axum::Json last, succeeded
DispatchBody ==
    /\ pc = "routing"
    /\ pending = <<>>
    /\ Routed(router, request[2])
    /\ LET r == inner[2]
           k == RouteOf(router, r)
           payload == Extract_Json(r)
       IN  /\ branch_decodes(router[k].branch)
           /\ IF IsOk(payload)
              THEN /\ jsonx' = "ok"
                   /\ ctx' = Some(Context(payload[2], HeaderMap_default,
                                          Path_new(Extract_Path(k[1], r.path)),
                                          Query_new(Extract_Query(r.query)),
                                          ExtractExtensions(r)))
                   /\ invoked' = Some(router[k].ep)
                   /\ pc' = "handling"
                   /\ response' = response
              ELSE /\ jsonx' = payload[2]
                   /\ response' = Some(JsonRejection_into_response(payload[2]))
                   /\ pc' = "done"
                   /\ UNCHANGED <<ctx, invoked>>
    /\ UNCHANGED <<phase, router, nreg, request>>
    /\ UNCHANGED <<doc, listener, builderVars, flightVars>>
    /\ UNCHANGED <<paramVars, routeVars, cfgVars, respVars, cxVars, svcVars, limiterVars, connVars>>

\* openapi::serve_docs: the document of Extension<OpenApi> as JSON
serve_docs(ext) ==
    IF "OpenApi" \in DOMAIN ext
    THEN WireResponse(200, JsonBody(ext["OpenApi"]))
    ELSE WireResponse(500, TextBody("Missing request extension"))

\* openapi::serve_scalar_ui
serve_scalar_ui(openapi_json_path) == WireResponse(200, <<"html", openapi_json_path>>)

\* the handlers of the documentation routes build() mounts
ServeDocs ==
    /\ pc = "routing"
    /\ pending = <<>>
    /\ Routed(router, request[2])
    /\ LET k == RouteOf(router, request[2])
       IN  /\ router[k].branch = "docs"
           /\ response' = Some(IF router[k].ep = "serve_docs"
                               THEN serve_docs(inner[2].extensions)
                               ELSE serve_scalar_ui("./openapi.json"))
    /\ pc' = "done"
    /\ UNCHANGED <<phase, router, nreg, request, ctx, jsonx, invoked>>
    /\ UNCHANGED <<doc, listener, builderVars, flightVars>>
    /\ UNCHANGED <<paramVars, routeVars, cfgVars, respVars, cxVars, svcVars, limiterVars, connVars>>

\* what a handler may return: E::Response = ApiResponse<T>
HandlerOutcomes ==
    { [tag |-> "Ok", data |-> "user1"],
      [tag |-> "NoContent"],
      [tag |-> "NotFound", msg |-> "User not found"] }

\* ep.handle(ctx).await, then IntoResponse on what it returned
Handle(out) ==
    /\ pc = "handling"
    /\ response' = Some(ApiResponse_into_response(out))
    /\ pc' = "done"
    /\ UNCHANGED <<phase, router, nreg, request, ctx, jsonx, invoked>>
    /\ UNCHANGED <<doc, listener, builderVars, flightVars>>
    /\ UNCHANGED <<paramVars, routeVars, cfgVars, respVars, cxVars, svcVars, limiterVars, connVars>>

\* the response passes back through a RequestIdService that was entered
LeaveLayer ==
    /\ pc = "done"
    /\ entered # <<>>
    /\ LET e == entered[Len(entered)]
       IN  response' = Some([response[2] EXCEPT !.headers =
                                HeaderMap_insert(@, e.header_name, e.request_id)])
    /\ entered' = SubSeq(entered, 1, Len(entered) - 1)
    /\ UNCHANGED <<phase, router, nreg, pc, request, ctx, jsonx, invoked>>
    /\ UNCHANGED <<doc, listener, builderVars, pending, inner>>
    /\ UNCHANGED <<paramVars, routeVars, cfgVars, respVars, cxVars, svcVars, limiterVars, connVars>>

\* the response is written and the request task ends
Finish ==
    /\ pc = "done"
    /\ entered = <<>>
    /\ pc' = "idle"
    /\ request' = None
    /\ inner' = None
    /\ pending' = <<>>
    /\ entered' = <<>>
    /\ ctx' = None
    /\ jsonx' = "none"
    /\ invoked' = None
    /\ response' = None
    /\ UNCHANGED <<phase, router, nreg, doc, listener, builderVars>>
    /\ UNCHANGED <<paramVars, routeVars, cfgVars, respVars, cxVars, svcVars, limiterVars, connVars>>

----------------------------------------------------------------------------
(* Specifications *)

ParamsIdle == pstore = None /\ presult = None

RespIdle == envelope = None /\ wire = None

CxIdle == cx = None /\ cxresult = None

SvcIdle == svc = None /\ tasks = <<>>

\* RateLimit::new: an empty store
LimiterInit == store = <<>> /\ now = 0 /\ admitted = <<>>

ConnIdle == conns = <<>>

ServerInit ==
    /\ phase = "building"
    /\ router = <<>>
    /\ nreg = 0
    /\ pc = "idle"
    /\ request = None
    /\ ctx = None
    /\ jsonx = "none"
    /\ invoked = None
    /\ response = None
    /\ openapi = None
    /\ doc = None
    /\ listener = "none"
    /\ fallback = <<>>
    /\ nlayer = 0
    /\ pending = <<>>
    /\ entered = <<>>
    /\ inner = None
    /\ address = Addr_default
    /\ config = None
    /\ calls = <<>>
    /\ server = None
    /\ schemes = {}
    /\ route = None
    /\ pbuilder = None

Init == ServerInit /\ ParamsIdle /\ RespIdle /\ CxIdle /\ SvcIdle /\ LimiterInit /\ ConnIdle

Next ==
    \/ \E E \in Endpoints : Register(E)
    \/ Build
    \/ Server_serve
    \/ \E r \in Requests : Receive(r)
    \/ Unrouted
    \/ DispatchNoBody
    \/ DispatchBody
    \/ \E out \in HandlerOutcomes : Handle(out)
    \/ Finish

Spec == Init /\ [][Next]_vars

----------------------------------------------------------------------------
(* The builder with its layers, the document and the listener *)

LayeredEndpoints == {E \in Endpoints : E.id \in {"GetUser", "PostEcho"}}

\* the layers an application passes to ServerBuilder::layer; one RateLimit
\* value, whose clones share a store
AppLayers == {BearerAuth_new({T1}), RateLimit_new(1, 1), RequestId_new}

S_rid == <<"r", "1">>

LayeredHeaders ==
    { JsonHeaders,
      [content_type |-> "application/json", authorization |-> S_Bearer \o T1],
      [content_type |-> "application/json", authorization |-> S_Bearer \o T2],
      [content_type |-> "application/json", authorization |-> S_Bearer \o T1,
       x_request_id |-> S_rid] }

\* a verb and a path: routed to GetUser, routed to PostEcho, a path without
\* the verb, an unknown path
LayeredTargets ==
    { <<"GET", <<S_users, <<"4", "2">>>>>>, <<"POST", <<S_echo>>>>,
      <<"GET", <<S_echo>>>>, <<"GET", <<S_other>>>> }

LayeredRequests ==
    {[verb |-> t[1], path |-> t[2], query |-> <<>>, body |-> ValidBody, headers |-> h,
      extensions |-> Extensions_new] : t \in LayeredTargets, h \in LayeredHeaders}
      \cup [verb : {"GET"}, path : {<<S_openapi_json>>, <<S_docs>>}, query : {<<>>},
            body : {[kind |-> "empty"]}, headers : {<<>>}, extensions : {Extensions_new}]

NextLayered ==
    \/ \E E \in LayeredEndpoints : Register(E)
    \/ \E v \in {"v1"} : WithState("AppState", v)
    \/ \E layer \in AppLayers : Layer(layer)
    \/ WithOpenApi
    \/ Build
    \/ ServerBuilder_serve
    \/ Server_serve
    \/ \E r \in LayeredRequests : Receive(r)
    \/ \E uuid \in Uuids : EnterLayer(uuid)
    \/ Unrouted
    \/ DispatchNoBody
    \/ DispatchBody
    \/ ServeDocs
    \/ \E out \in HandlerOutcomes : Handle(out)
    \/ LeaveLayer
    \/ Finish

SpecLayered == Init /\ [][NextLayered]_vars

----------------------------------------------------------------------------
(* Parameter stores on their own: accessors applied to a drawn store *)

PageValues == {<<"2">>, <<"1", "0">>, <<>>}

StoreMaps ==
    {m \in ParamMaps(RawValues \cup PageValues) :
        "page" \in DOMAIN m => m["page"] \in PageValues}

ParamStores == {Path_new(m) : m \in StoreMaps} \cup {Query_new(m) : m \in StoreMaps}

TypedAccessors == {"u64", "i64", "u32", "i32", "bool"}

Store_parse(self, key, T) ==
    IF self.kind = "Path" THEN Path_parse(self, key, T) ELSE Query_parse(self, key, T)

Store_get_T(self, key, T) ==
    IF self.kind = "Path" THEN Path_get_T(self, key, T) ELSE Query_get_T(self, key, T)

InitParams ==
    /\ pstore \in {Some(st) : st \in ParamStores}
    /\ presult = None
    /\ ServerInit /\ RespIdle /\ CxIdle /\ SvcIdle /\ LimiterInit /\ ConnIdle

CallGet(key) ==
    /\ presult = None
    /\ presult' = Some([op |-> "get", key |-> key, out |-> Store_get(pstore[2], key)])
    /\ UNCHANGED <<pstore, routeVars, respVars, cxVars, serverVars, svcVars, limiterVars, connVars>>

CallParse(key, T) ==
    /\ presult = None
    /\ presult' = Some([op |-> "parse", key |-> key, ty |-> T,
                        out |-> Store_parse(pstore[2], key, T)])
    /\ UNCHANGED <<pstore, routeVars, respVars, cxVars, serverVars, svcVars, limiterVars, connVars>>

CallGetT(key, T) ==
    /\ presult = None
    /\ presult' = Some([op |-> "get_T", key |-> key, ty |-> T,
                        out |-> Store_get_T(pstore[2], key, T)])
    /\ UNCHANGED <<pstore, routeVars, respVars, cxVars, serverVars, svcVars, limiterVars, connVars>>

\* the caller drops the returned value
Return ==
    /\ presult # None
    /\ presult' = None
    /\ UNCHANGED <<pstore, routeVars, respVars, cxVars, serverVars, svcVars, limiterVars, connVars>>

NextParams ==
    \/ Return
    \/ \E key \in LookupKeys : CallGet(key)
    \/ \E key \in LookupKeys, T \in TargetTypes : CallParse(key, T)
    \/ \E key \in LookupKeys, T \in TypedAccessors : CallGetT(key, T)

SpecParams == InitParams /\ [][NextParams]_vars

----------------------------------------------------------------------------
(* The response envelope on its own: a handler constructs a value, the     *)
(* framework converts it                                                   *)

InitResponse ==
    /\ envelope = None
    /\ wire = None
    /\ ServerInit /\ ParamsIdle /\ CxIdle /\ SvcIdle /\ LimiterInit /\ ConnIdle

Construct(v) ==
    /\ envelope' = Some(v)
    /\ wire' = None
    /\ UNCHANGED <<paramVars, routeVars, cxVars, serverVars, svcVars, limiterVars, connVars>>

Convert ==
    /\ envelope # None
    /\ wire = None
    /\ wire' = Some(ApiResponse_into_response(envelope[2]))
    /\ UNCHANGED <<envelope, paramVars, routeVars, cxVars, serverVars, svcVars, limiterVars, connVars>>

NextResponse ==
    \/ \E v \in ApiResponses : Construct(v)
    \/ Convert

SpecResponse == InitResponse /\ [][NextResponse]_vars

----------------------------------------------------------------------------
(* The context on its own: state accessors applied to a drawn bag *)

InitContext ==
    /\ cx \in {Some(Context(Request_default, HeaderMap_default, Path_empty,
                            Query_empty, b)) : b \in Bags}
    /\ cxresult = None
    /\ ServerInit /\ ParamsIdle /\ RespIdle /\ SvcIdle /\ LimiterInit /\ ConnIdle

CallState(S) ==
    /\ cxresult' = Some([op |-> "state", ty |-> S, out |-> Context_state(cx[2], S)])
    /\ UNCHANGED <<cx, paramVars, routeVars, respVars, serverVars, svcVars, limiterVars, connVars>>

CallTryState(S) ==
    /\ cxresult' = Some([op |-> "try_state", ty |-> S,
                         out |-> Context_try_state(cx[2], S)])
    /\ UNCHANGED <<cx, paramVars, routeVars, respVars, serverVars, svcVars, limiterVars, connVars>>

NextContext ==
    \/ \E S \in StateTypes : CallState(S)
    \/ \E S \in StateTypes : CallTryState(S)

SpecContext == InitContext /\ [][NextContext]_vars

----------------------------------------------------------------------------
(* BearerAuthService on its own: requests through one service whose inner  *)
(* service is any service (middleware/auth.rs)                             *)

Tasks == {"t1", "t2"}

AuthValues ==
    { <<"B", "a", "s", "i", "c", " ", "t", "1">>,
      <<"b", "e", "a", "r", "e", "r", " ">> \o T1,
      <<"B", "e", "a", "r", "e", "r">>,
      S_Bearer,
      S_Bearer \o T1,
      S_Bearer \o T2,
      S_Bearer \o <<Opaque>> }

AuthRequests == {[headers |-> <<>>]} \cup {[headers |-> [authorization |-> v]] : v \in AuthValues}

\* the token lists given to token_validator
TokenLists == {{}, {T1}, {T1, <<>>}}

\* what the inner service may answer
InnerResponses == {WireResponse(200, JsonBody("user1")), WireResponse(204, EmptyBody)}

AuthIdle ==
    [pc |-> "idle", req |-> None, token |-> None, vcalls |-> 0, seen |-> None,
     resp |-> None]

InitAuth ==
    /\ svc \in {Some(BearerAuth_new(valid)) : valid \in TokenLists}
    /\ tasks = [t \in Tasks |-> AuthIdle]
    /\ ServerInit /\ ParamsIdle /\ RespIdle /\ CxIdle /\ LimiterInit /\ ConnIdle

\* BearerAuthService::call up to the future it returns
BearerAuthService_call(t, req) ==
    /\ tasks[t].pc = "idle"
    /\ LET token == BearerAuthService_token(req.headers)
       IN  tasks' = [tasks EXCEPT ![t] =
              IF IsSome(token)
              THEN [@ EXCEPT !.pc = "validating", !.req = Some(req), !.token = token]
              ELSE [@ EXCEPT !.pc = "done", !.req = Some(req),
                             !.resp = Some(Unauthorized_missing)]]
    /\ UNCHANGED <<svc, paramVars, routeVars, respVars, cxVars, serverVars, limiterVars, connVars>>

\* the future: validator(token).await, then the inner call or the refusal
BearerAuthService_validate(t) ==
    /\ tasks[t].pc = "validating"
    /\ LET out == token_validator(svc[2].validator, tasks[t].token[2])
       IN  tasks' = [tasks EXCEPT ![t] =
              IF IsOk(out)
              THEN [@ EXCEPT !.pc = "inner", !.vcalls = @ + 1, !.seen = tasks[t].req]
              ELSE [@ EXCEPT !.pc = "done", !.vcalls = @ + 1,
                             !.resp = Some(Unauthorized_failed(out[2]))]]
    /\ UNCHANGED <<svc, paramVars, routeVars, respVars, cxVars, serverVars, limiterVars, connVars>>

\* inner.call(req).await returns
BearerAuthService_inner(t, r) ==
    /\ tasks[t].pc = "inner"
    /\ tasks' = [tasks EXCEPT ![t] = [@ EXCEPT !.pc = "done", !.resp = Some(r)]]
    /\ UNCHANGED <<svc, paramVars, routeVars, respVars, cxVars, serverVars, limiterVars, connVars>>

\* the response is written; the task serves the next request
AuthComplete(t) ==
    /\ tasks[t].pc = "done"
    /\ tasks' = [tasks EXCEPT ![t] = AuthIdle]
    /\ UNCHANGED <<svc, paramVars, routeVars, respVars, cxVars, serverVars, limiterVars, connVars>>

NextAuth ==
    \/ \E t \in Tasks, req \in AuthRequests : BearerAuthService_call(t, req)
    \/ \E t \in Tasks : BearerAuthService_validate(t)
    \/ \E t \in Tasks, r \in InnerResponses : BearerAuthService_inner(t, r)
    \/ \E t \in Tasks : AuthComplete(t)

SpecAuth == InitAuth /\ [][NextAuth]_vars

----------------------------------------------------------------------------
(* RequestIdService on its own (middleware/request_id.rs) *)

HeaderNames == {"x_request_id", "x_trace_id"}

\* an ID the inner service puts on its response itself
S_inner_id == <<"i", "n">>

IdRequests ==
    { [headers |-> <<>>],
      [headers |-> [x_request_id |-> S_rid]],
      [headers |-> [x_trace_id |-> S_rid]],
      [headers |-> [x_request_id |-> <<Opaque>>, accept |-> <<"*">>]] }

IdInnerResponses ==
    { WireResponse(200, JsonBody("user1")),
      [WireResponse(200, JsonBody("user1")) EXCEPT !.headers = [x_request_id |-> S_inner_id]],
      [WireResponse(204, EmptyBody) EXCEPT !.headers = [x_trace_id |-> S_inner_id]] }

IdIdle == [pc |-> "idle", req |-> None, seen |-> None, inner_resp |-> None, resp |-> None]

InitRequestId ==
    /\ svc \in {Some(RequestId_new)} \cup {Some(RequestId_with_header(n)) : n \in HeaderNames}
    /\ tasks = [t \in Tasks |-> IdIdle]
    /\ ServerInit /\ ParamsIdle /\ RespIdle /\ CxIdle /\ LimiterInit /\ ConnIdle

\* RequestIdService::call up to the future it returns
RequestIdService_call(t, req, uuid) ==
    /\ tasks[t].pc = "idle"
    /\ LET header_name == svc[2].header_name
           request_id == RequestIdService_request_id(req.headers, header_name, uuid)
       IN  tasks' = [tasks EXCEPT ![t] =
              [@ EXCEPT !.pc = "inner", !.req = Some(req),
                        !.seen = Some([req EXCEPT !.headers =
                                         HeaderMap_insert(@, header_name, request_id)])]]
    /\ UNCHANGED <<svc, paramVars, routeVars, respVars, cxVars, serverVars, limiterVars, connVars>>

\* the future: inner.call(req).await, then the ID set on the response
RequestIdService_respond(t, r) ==
    /\ tasks[t].pc = "inner"
    /\ LET header_name == svc[2].header_name
           request_id == tasks[t].seen[2].headers[header_name]
       IN  tasks' = [tasks EXCEPT ![t] =
              [@ EXCEPT !.pc = "done", !.inner_resp = Some(r),
                        !.resp = Some([r EXCEPT !.headers =
                                         HeaderMap_insert(@, header_name, request_id)])]]
    /\ UNCHANGED <<svc, paramVars, routeVars, respVars, cxVars, serverVars, limiterVars, connVars>>

IdComplete(t) ==
    /\ tasks[t].pc = "done"
    /\ tasks' = [tasks EXCEPT ![t] = IdIdle]
    /\ UNCHANGED <<svc, paramVars, routeVars, respVars, cxVars, serverVars, limiterVars, connVars>>

NextRequestId ==
    \/ \E t \in Tasks, req \in IdRequests, uuid \in Uuids : RequestIdService_call(t, req, uuid)
    \/ \E t \in Tasks, r \in IdInnerResponses : RequestIdService_respond(t, r)
    \/ \E t \in Tasks : IdComplete(t)

SpecRequestId == InitRequestId /\ [][NextRequestId]_vars

----------------------------------------------------------------------------
(* RateLimitService on its own: concurrent requests through clones of one  *)
(* RateLimit, under a clock (middleware/rate_limit.rs)                     *)

Ip_a == <<"a">>

Ip_b == <<"b">>

\* headers: the request's; ip: the peer address of its connection
LimitedRequests ==
    { [headers |-> <<>>, ip |-> Ip_a],
      [headers |-> <<>>, ip |-> Ip_b],
      [headers |-> [x_forwarded_for |-> <<"a", ",", " ", "b">>], ip |-> Ip_b] }

\* RateLimit::new(max_requests, window)
Limiters == {RateLimit_new(1, 2), RateLimit_new(2, 2)}

LimitedIdle == [pc |-> "idle", req |-> None, key |-> None, seen |-> None, resp |-> None]

InitRateLimit ==
    /\ svc \in {Some(limiter) : limiter \in Limiters}
    /\ tasks = [t \in Tasks |-> LimitedIdle]
    /\ LimiterInit
    /\ ServerInit /\ ParamsIdle /\ RespIdle /\ CxIdle /\ ConnIdle

\* RateLimitService::call: the key is read off the request
RateLimitService_call(t, req) ==
    /\ tasks[t].pc = "idle"
    /\ tasks' = [tasks EXCEPT ![t] =
          [@ EXCEPT !.pc = "keyed", !.req = Some(req),
                    !.key = Some(RateLimitService_ip(req.headers))]]
    /\ UNCHANGED <<svc, limiterVars, paramVars, routeVars, respVars, cxVars, serverVars, connVars>>

\* self.limiter.check_rate_limit(ip): one critical section of the store's
\* mutex; the request goes on to the inner service or is refused
RateLimitService_check(t) ==
    /\ tasks[t].pc = "keyed"
    /\ LET key == tasks[t].key[2]
           out == check_rate_limit(svc[2], store, key, now)
       IN  /\ store' = out.store
           /\ admitted' = IF out.allowed THEN Admit(admitted, key, now) ELSE admitted
           /\ tasks' = [tasks EXCEPT ![t] =
                 IF out.allowed
                 THEN [@ EXCEPT !.pc = "inner", !.seen = tasks[t].req]
                 ELSE [@ EXCEPT !.pc = "done", !.resp = Some(TooManyRequests)]]
    /\ UNCHANGED <<svc, now, paramVars, routeVars, respVars, cxVars, serverVars, connVars>>

\* inner.call(req).await returns
RateLimitService_inner(t, r) ==
    /\ tasks[t].pc = "inner"
    /\ tasks' = [tasks EXCEPT ![t] = [@ EXCEPT !.pc = "done", !.resp = Some(r)]]
    /\ UNCHANGED <<svc, limiterVars, paramVars, routeVars, respVars, cxVars, serverVars, connVars>>

LimitedComplete(t) ==
    /\ tasks[t].pc = "done"
    /\ tasks' = [tasks EXCEPT ![t] = LimitedIdle]
    /\ UNCHANGED <<svc, limiterVars, paramVars, routeVars, respVars, cxVars, serverVars, connVars>>

\* the monotonic clock advances
Tick ==
    /\ now < MaxTime
    /\ now' = now + 1
    /\ UNCHANGED <<svc, tasks, store, admitted, paramVars, routeVars, respVars, cxVars, serverVars,
                   connVars>>

NextRateLimit ==
    \/ \E t \in Tasks, req \in LimitedRequests : RateLimitService_call(t, req)
    \/ \E t \in Tasks : RateLimitService_check(t)
    \/ \E t \in Tasks : RateLimitService_inner(t, WireResponse(200, JsonBody("user1")))
    \/ \E t \in Tasks : LimitedComplete(t)
    \/ Tick

SpecRateLimit == InitRateLimit /\ [][NextRateLimit]_vars

----------------------------------------------------------------------------
(* Requests served concurrently by the routes of one server                *)
(* (server/builder.rs)                                                     *)

Conns == {"c1", "c2"}

ConcurrentEndpoints == {E \in Endpoints : E.id \in {"GetUser", "GetEcho"}}

ConcurrentRequests ==
    [verb : {"GET"}, path : {<<S_users, <<"x">>>>, <<S_echo>>}, query : {<<>>},
     body : {[kind |-> "empty"]}, headers : {<<>>}, extensions : RequestBags]

\* the types and values a middleware or a handler inserts
InsertedTypes == {"AuthUser", "Claims"}

\* Arc::clone(&ep): another reference to the registered endpoint
Arc_clone(ep) == ep

ConnIdleState ==
    [pc |-> "idle", req |-> None, ctx |-> None, handler |-> None, written |-> <<>>]

\* a connection's task takes a request
Accept(c, r) ==
    /\ phase = "built"
    /\ listener = "bound"
    /\ conns[c].pc = "idle"
    /\ conns' = [conns EXCEPT ![c] =
          [@ EXCEPT !.pc = IF Routed(router, r) THEN "extracting" ELSE "done",
                    !.req = Some(r)]]
    /\ UNCHANGED <<paramVars, routeVars, respVars, cxVars, serverVars, svcVars, limiterVars>>

\* a middleware ahead of the closure: req.extensions_mut().insert(value)
MiddlewareInsert(c, S, v) ==
    /\ conns[c].pc = "extracting"
    /\ conns' = [conns EXCEPT ![c] =
          [@ EXCEPT !.req = Some([conns[c].req[2] EXCEPT !.extensions =
                                     Extensions_insert(@, S, v)])]]
    /\ UNCHANGED <<paramVars, routeVars, respVars, cxVars, serverVars, svcVars, limiterVars>>

\* the closure of the get_with arm, run by the task of connection c
ConnDispatch(c) ==
    /\ conns[c].pc = "extracting"
    /\ LET r == conns[c].req[2]
           k == RouteOf(router, r)
       IN  conns' = [conns EXCEPT ![c] =
              [@ EXCEPT !.pc = "handling",
                        !.handler = Some(Arc_clone(router[k].ep)),
                        !.ctx = Some(Context(Request_default, HeaderMap_default,
                                             Path_new(Extract_Path(k[1], r.path)),
                                             Query_new(Extract_Query(r.query)),
                                             ExtractExtensions(r)))]]
    /\ UNCHANGED <<paramVars, routeVars, respVars, cxVars, serverVars, svcVars, limiterVars>>

\* the handler owns its Context: ctx.extensions.insert(value)
HandlerInsert(c, S, v) ==
    /\ conns[c].pc = "handling"
    /\ conns' = [conns EXCEPT ![c] =
          [@ EXCEPT !.ctx = Some([conns[c].ctx[2] EXCEPT !.extensions =
                                     Extensions_insert(@, S, v)]),
                    !.written = Extensions_insert(@, S, v)]]
    /\ UNCHANGED <<paramVars, routeVars, respVars, cxVars, serverVars, svcVars, limiterVars>>

\* the handler returns and the Context is dropped
ConnFinish(c) ==
    /\ conns[c].pc \in {"handling", "done"}
    /\ conns' = [conns EXCEPT ![c] = ConnIdleState]
    /\ UNCHANGED <<paramVars, routeVars, respVars, cxVars, serverVars, svcVars, limiterVars>>

InitConcurrent ==
    /\ conns = [c \in Conns |-> ConnIdleState]
    /\ ServerInit /\ ParamsIdle /\ RespIdle /\ CxIdle /\ SvcIdle /\ LimiterInit

NextConcurrent ==
    \/ \E E \in ConcurrentEndpoints : Register(E)
    \/ Build
    \/ Server_serve
    \/ \E c \in Conns, r \in ConcurrentRequests : Accept(c, r)
    \/ \E c \in Conns, S \in InsertedTypes, v \in StateValues : MiddlewareInsert(c, S, v)
    \/ \E c \in Conns : ConnDispatch(c)
    \/ \E c \in Conns, S \in InsertedTypes, v \in StateValues : HandlerInsert(c, S, v)
    \/ \E c \in Conns : ConnFinish(c)

SpecConcurrent == InitConcurrent /\ [][NextConcurrent]_vars

----------------------------------------------------------------------------
(* The builder's configuration calls, in any order, up to build()          *)
(* (server/builder.rs)                                                     *)

\* addresses passed to bind: one that parses, one that does not
Addrs == {Addr_any, Addr_localhost}

\* documentation off on another address, documentation on at the default
Configs == {App(Addr_any, FALSE), App(Addr_default, TRUE)}

\* the builder takes MaxCalls calls in all before build()
Budget == Len(calls) + nreg + nlayer < MaxCalls

NextBuilder ==
    \/ Budget /\ \E E \in DocumentedEndpoints : Register(E)
    \/ Budget /\ \E rt \in Routers : Merge(rt)
    \/ Budget /\ \E rt \in Routers : Nest("/api", rt)
    \/ Budget /\ NestService("/static", "ServeDir")
    \/ Budget /\ WithState("AppState", "v1")
    \/ Budget /\ Layer(RequestId_new)
    \/ Budget /\ ServerBuilder_with_openapi
    \/ Budget /\ \E addr \in Addrs : Bind(addr)
    \/ Budget /\ \E c \in Configs : WithConfig(c)
    \/ Build

SpecBuilder == Init /\ [][NextBuilder]_vars

----------------------------------------------------------------------------
(* A Route under construction in an endpoint's route() (server/endpoint.rs) *)

\* parameter names: empty, a placeholder of "/users/:id", a name of no path
ParamNames == {"", "id", "page"}

RouteTemplates == {<<"GET", "/users/:id">>, <<"POST", "/echo">>}

Declared == Len(route[2].query_params) + Len(route[2].path_params)

RouteIdle ==
    UNCHANGED <<paramVars, respVars, cxVars, serverVars, svcVars, limiterVars, connVars>>

\* Route::get(path), Route::post(path), ..
NewRoute(method, path) ==
    /\ route = None
    /\ route' = Some(Route_new(method, path))
    /\ pbuilder' = None
    /\ RouteIdle

\* route.query(name), the ParamBuilder not yet used
Query(name) ==
    /\ IsSome(route) /\ pbuilder = None
    /\ Declared < MaxParams
    /\ route' = Some(Route_query(route[2], name))
    /\ pbuilder' = Some(ParamBuilder("Query", Len(route'[2].query_params) - 1))
    /\ RouteIdle

\* route.path_param(name), the ParamBuilder not yet used
PathParam(name) ==
    /\ IsSome(route) /\ pbuilder = None
    /\ Declared < MaxParams
    /\ route' = Some(Route_path_param(route[2], name))
    /\ pbuilder' = Some(ParamBuilder("Path", Len(route'[2].path_params) - 1))
    /\ RouteIdle

\* route.param(name, description)
Param(name, description) ==
    /\ IsSome(route) /\ pbuilder = None
    /\ Declared < MaxParams
    /\ route' = Some(Route_param(route[2], name, description))
    /\ pbuilder' = None
    /\ RouteIdle

\* .required() on the ParamBuilder, which is consumed
Required ==
    /\ IsSome(pbuilder)
    /\ route' = Some(ParamBuilder_required(route[2], pbuilder[2]))
    /\ pbuilder' = None
    /\ RouteIdle

\* .desc(text) on the ParamBuilder, which is consumed
Desc(description) ==
    /\ IsSome(pbuilder)
    /\ route' = Some(ParamBuilder_desc(route[2], pbuilder[2], description))
    /\ pbuilder' = None
    /\ RouteIdle

\* the ParamBuilder dropped unused: `route.query("limit");`
DropBuilder ==
    /\ IsSome(pbuilder)
    /\ pbuilder' = None
    /\ route' = route
    /\ RouteIdle

NextRoute ==
    \/ \E t \in RouteTemplates : NewRoute(t[1], t[2])
    \/ \E name \in ParamNames : Query(name)
    \/ \E name \in ParamNames : PathParam(name)
    \/ Param("id", "User ID")
    \/ Required
    \/ Desc("Page number")
    \/ DropBuilder

SpecRoute == Init /\ [][NextRoute]_vars

----------------------------------------------------------------------------
(* Properties *)

\* the values a query string supplies for a key
Supplied(pairs, k) == {pairs[i][2] : i \in {j \in 1..Len(pairs) : pairs[j][1] = k}}

AllNames == LookupKeys

\* the request in flight reached a handler
Handled == pc \in {"handling", "done"} /\ invoked # None

\* C1: when a request reaches the handler, ctx.path.get(name) is the raw
\* segment of the request path at the position of ":name" in the route's
\* template (None for a name the template does not capture), and
\* ctx.query.get(name) is a raw value the query string supplies for that
\* name (None when it supplies none)
C1_ParamRoundTrip ==
    Handled =>
      LET r == request[2]
          c == ctx[2]
          t == Segments(RouteOf(router, r)[1])
      IN  /\ \A i \in 1..Len(t) :
                t[i][1] = "param" => Path_get(c.path, t[i][2]) = Some(r.path[i])
          /\ \A n \in AllNames :
                (\A i \in 1..Len(t) : t[i] # Capture(n)) => Path_get(c.path, n) = None
          /\ \A n \in AllNames :
                IF Supplied(r.query, n) = {}
                THEN Query_get(c.query, n) = None
                ELSE /\ IsSome(Query_get(c.query, n))
                     /\ Query_get(c.query, n)[2] \in Supplied(r.query, n)

\* a GET /users/42?page=1&page=2&id=9 reached the handler
C1_Witness ==
    /\ Handled
    /\ request[2].path = <<S_users, <<"4", "2">>>>
    /\ Len(request[2].query) = 3
    /\ Path_get(ctx[2].path, "id") = Some(<<"4", "2">>)

ParseCall == presult # None /\ presult[2].op = "parse"

IsMissing(out) == out[1] = "Err" /\ out[2].kind = "Missing"

IsInvalidType(out) == out[1] = "Err" /\ out[2].kind = "InvalidType"

\* C2: parse::<T>(key) is Missing(key) exactly when get(key) is None, is
\* InvalidType{key, raw value, type name of T} exactly when get(key) is
\* Some(v) and v does not parse as T, and is Ok(parsed value) otherwise
C2_ParseOutcome ==
    ParseCall =>
      LET st == pstore[2]
          key == presult[2].key
          T == presult[2].ty
          out == presult[2].out
          g == Store_get(st, key)
      IN  /\ IsMissing(out) <=> g = None
          /\ IsMissing(out) => out[2] = Missing(key)
          /\ IsInvalidType(out) <=> (IsSome(g) /\ ~IsOk(FromStr(T, g[2])))
          /\ IsInvalidType(out) => out[2] = InvalidType(key, g[2], type_name(T))
          /\ (IsSome(g) /\ IsOk(FromStr(T, g[2]))) => out = FromStr(T, g[2])

\* C2: parse leaves the store as it was
C2_StoreUnchanged == [][pstore' = pstore]_vars

C2_Theorem == []C2_ParseOutcome /\ C2_StoreUnchanged

\* "256" is present but does not fit u8
C2_Witness ==
    /\ ParseCall
    /\ presult[2].ty = "u8"
    /\ Store_get(pstore[2], presult[2].key) = Some(<<"2", "5", "6">>)
    /\ IsInvalidType(presult[2].out)

Converted == envelope # None /\ wire # None

\* the status table of the response envelope
StatusTable(tag) ==
    CASE tag = "Ok" -> 200 [] tag = "Created" -> 201 [] tag = "NoContent" -> 204
      [] tag \in {"BadRequest", "BadRequestWithDetails"} -> 400
      [] tag = "Unauthorized" -> 401 [] tag = "Forbidden" -> 403
      [] tag = "NotFound" -> 404 [] tag = "Conflict" -> 409
      [] tag \in {"UnprocessableEntity", "UnprocessableEntityWithDetails"} -> 422
      [] tag = "InternalError" -> 500 [] tag = "ServiceUnavailable" -> 503

\* C3: the status of the wire response is the table entry of the tag,
\* whatever the payload, and NoContent has an empty body
C3_StatusTable ==
    Converted =>
      /\ wire[2].status = StatusTable(envelope[2].tag)
      /\ envelope[2].tag = "NoContent" => wire[2].body = EmptyBody

\* Ok carrying a payload whose serialization fails was converted
C3_Witness ==
    /\ Converted
    /\ envelope[2].tag = "Ok"
    /\ envelope[2].data = "unserializable"
    /\ wire[2].status = 200

\* the entry of the router the request in flight was routed to
Entry == router[RouteOf(router, request[2])]

PastRouting == pc \in {"handling", "done"} /\ Routed(router, request[2])

\* C4: a request routed to an endpoint registered with method GET reaches
\* the handler with Request::default(), whatever its body and content type,
\* and the JSON extractor is not run
C4_GetNeverDecodes ==
    (PastRouting /\ Entry.method = "GET") =>
      /\ invoked = Some(Entry.ep)
      /\ ctx[2].req = Request_default
      /\ jsonx = "none"

\* a GET carrying a well-formed JSON body with a name reached the handler
C4_Witness ==
    /\ PastRouting
    /\ Entry.method = "GET"
    /\ request[2].body = ValidBody
    /\ request[2].headers = JsonHeaders
    /\ invoked # None

BodyMethods == {"POST", "PUT", "PATCH", "DELETE"}

\* the wire body is a JSON object with a string field "name"
BodyDecodes(body) ==
    /\ body.kind = "json"
    /\ "name" \in DOMAIN body.value
    /\ body.value.name[1] = "str"

\* C5: on a route registered with POST, PUT, PATCH or DELETE the handler is
\* invoked only after the body was decoded, with ctx.req the decoded value;
\* a request whose body is missing, malformed or of the wrong shape is
\* answered without the handler being invoked
C5_DecodeBeforeHandler ==
    (pc # "idle" /\ Routed(router, request[2]) /\ Entry.method \in BodyMethods) =>
      /\ invoked # None =>
            /\ jsonx = "ok"
            /\ BodyDecodes(request[2].body)
            /\ ctx[2].req = [name |-> request[2].body.value.name[2]]
      /\ (pc \in {"handling", "done"} /\ ~BodyDecodes(request[2].body)) =>
            /\ invoked = None
            /\ pc = "done"
            /\ response # None

\* a DELETE without a body was answered and the handler did not run
C5_Witness ==
    /\ pc = "done"
    /\ Routed(router, request[2])
    /\ Entry.method = "DELETE"
    /\ request[2].body.kind = "empty"
    /\ request[2].headers = JsonHeaders
    /\ invoked = None

DecodeFailed == pc = "done" /\ jsonx \notin {"none", "ok"}

\* C6: a body-decode failure is answered 400 with a JSON body
\* {"code": "json_parse_error", "message": ..}
C6_JsonParseError ==
    DecodeFailed =>
      /\ response[2].status = 400
      /\ response[2].body[1] = "json"
      /\ response[2].body[2].code = "json_parse_error"

ErrorTags == SimpleErrorTags \cup DetailTags

\* C7: an error envelope is serialized as an object with a key "code" and
\* a key "message" holding what the handler supplied
C7_ErrorShape ==
    (Converted /\ envelope[2].tag \in ErrorTags) =>
      /\ wire[2].body[1] = "json"
      /\ "code" \in DOMAIN wire[2].body[2]
      /\ "message" \in DOMAIN wire[2].body[2]

\* C8: the body of a converted envelope is empty exactly when the status
\* is 204; no 4xx or 5xx outcome has an empty body
C8_EmptyIff204 ==
    Converted =>
      /\ wire[2].body = EmptyBody <=> wire[2].status = 204
      /\ wire[2].status >= 400 => wire[2].body # EmptyBody

\* an error envelope with an empty message was converted
C8_Witness ==
    /\ Converted
    /\ envelope[2].tag = "InternalError"
    /\ envelope[2].msg = ""
    /\ wire[2].body # EmptyBody

\* the verb a route of the given method is served under
ServedUnder(method) == IF method \in {"OPTIONS", "HEAD"} THEN "GET" ELSE method

\* C9: every registered route sits under exactly one verb, the one of its
\* method, and GET when the method is OPTIONS or HEAD; a request routed to an
\* OPTIONS or HEAD route is a GET and reaches the handler with
\* Request::default() without the JSON extractor being run
C9_FallbackToGet ==
    /\ \A k \in DOMAIN router : k[2] = ServedUnder(router[k].method)
    /\ phase # "panicked" => Cardinality(DOMAIN router) = nreg
    /\ (PastRouting /\ Entry.method \in {"OPTIONS", "HEAD"}) =>
          /\ request[2].verb = "GET"
          /\ invoked = Some(Entry.ep)
          /\ ctx[2].req = Request_default
          /\ jsonx = "none"

\* a GET request with a body was served by a route registered as OPTIONS
C9_Witness ==
    /\ PastRouting
    /\ Entry.method = "OPTIONS"
    /\ request[2].verb = "GET"
    /\ request[2].body = ValidBody
    /\ invoked = Some("OptionsEcho")

StateCall == cxresult # None /\ cxresult[2].op = "state"

TryStateCall == cxresult # None /\ cxresult[2].op = "try_state"

\* C10: try_state::<S>() is Some(stored value) when the bag holds a value of
\* type S and None otherwise; state::<S>() returns the stored value when
\* present and panics exactly when try_state::<S>() is None
C10_StateAccess ==
    /\ TryStateCall =>
          LET S == cxresult[2].ty
              bag == cx[2].extensions
          IN  cxresult[2].out = IF S \in DOMAIN bag THEN Some(bag[S]) ELSE None
    /\ StateCall =>
          LET S == cxresult[2].ty
              bag == cx[2].extensions
              out == cxresult[2].out
          IN  /\ out[1] = "Panic" <=> Context_try_state(cx[2], S) = None
              /\ S \in DOMAIN bag => out = Returned(bag[S])

\* C10: neither accessor changes the bag
C10_BagUnchanged == [][cx' = cx]_vars

C10_Theorem == []C10_StateAccess /\ C10_BagUnchanged

\* state::<AppState>() on a bag holding only an AuthUser
C10_Witness ==
    /\ StateCall
    /\ cxresult[2].ty = "AppState"
    /\ DOMAIN cx[2].extensions = {"AuthUser"}
    /\ cxresult[2].out[1] = "Panic"

\* the two header maps hold the same values under the same names
SameMap(a, b) == DOMAIN a = DOMAIN b /\ \A n \in DOMAIN a : a[n] = b[n]

\* the layer was passed to with_state() or layer() before the route e was
\* added: the fallback has every layer of the builder, e those applied since
AppliedBefore(layer, e) ==
    \E i \in 1..(Len(fallback) - Len(e.layers)) : fallback[i] = layer

\* the response of the request in flight has passed every layer on its way out
Answered == pc = "done" /\ entered = <<>>

\* C11: when with_state(s) was called before register(E), every request
\* dispatched to E reaches the handler with a Context in which
\* state::<AppState>() returns s and does not panic
C11_StateReachesHandler ==
    (Handled /\ AppliedBefore(Extension("AppState", "v1"), Entry)) =>
        Context_state(ctx[2], "AppState") = Returned("v1")

\* C12: the headers field of the Context handed to the handler holds the
\* headers of the incoming request, on every method branch
C12_HeadersForwarded ==
    Handled => SameMap(ctx[2].headers, request[2].headers)

\* the request has an Authorization header that is text starting "Bearer "
Presents(req) ==
    /\ "authorization" \in DOMAIN req.headers
    /\ LET v == req.headers.authorization
       IN  /\ \A i \in 1..Len(v) : v[i] # Opaque
           /\ Len(v) >= 7
           /\ \A i \in 1..7 : v[i] = S_Bearer[i]

\* what follows "Bearer " in the header
Rest(req) == SubSeq(req.headers.authorization, 8, Len(req.headers.authorization))

\* the validator built from the token list returns Ok for the rest of the header
Accepted(req, valid_tokens) == Presents(req) /\ Rest(req) \in valid_tokens

\* C13: BearerAuthService calls the inner service, with the request as it
\* came, exactly when the request has an Authorization header starting
\* "Bearer " and the validator returns Ok for the rest; otherwise it answers
\* 401 and never calls the inner service; the validator runs at most once
\* per request and only when a Bearer token was extracted
C13_BearerGate ==
    \A t \in Tasks :
       LET T == tasks[t]
       IN  /\ T.seen # None => (Accepted(T.req[2], svc[2].validator) /\ T.seen = T.req)
           /\ T.pc = "done" =>
                 IF Accepted(T.req[2], svc[2].validator)
                 THEN T.seen # None /\ T.resp[2] \in InnerResponses
                 ELSE T.seen = None /\ T.resp[2].status = 401
           /\ T.vcalls <= 1
           /\ T.vcalls = 1 => Presents(T.req[2])
           /\ T.pc = "inner" => T.vcalls = 1

\* one request was refused by the validator, which ran once, while another
\* one was passed to the inner service
C13_Witness ==
    \E t, u \in Tasks :
       /\ tasks[t].pc = "done"
       /\ Presents(tasks[t].req[2])
       /\ tasks[t].vcalls = 1
       /\ tasks[t].resp[2].status = 401
       /\ tasks[t].seen = None
       /\ tasks[u].pc = "inner"
       /\ tasks[u].seen # None

\* C14: when a layer was passed to ServerBuilder::layer before register(E),
\* it is around E's route: under BearerAuth a request to the route without
\* a valid Bearer token is answered 401 and the handler is not invoked;
\* under RateLimit a request that reaches the handler was counted; under
\* RequestId the response carries the ID header
C14_LayerBeforeRegister ==
    (pc # "idle" /\ Routed(router, request[2]) /\ Entry.branch # "docs") =>
       /\ \A layer \in AppLayers :
             (layer.kind = "BearerAuth" /\ AppliedBefore(layer, Entry)
                /\ ~Accepted(request[2], layer.validator)) =>
                /\ invoked = None
                /\ Answered => response[2].status = 401
       /\ \A layer \in AppLayers :
             (layer.kind = "RateLimit" /\ AppliedBefore(layer, Entry) /\ invoked # None) =>
                RateLimitService_ip(request[2].headers) \in DOMAIN admitted
       /\ \A layer \in AppLayers :
             (layer.kind = "RequestId" /\ AppliedBefore(layer, Entry) /\ Answered) =>
                layer.header_name \in DOMAIN response[2].headers

\* the timestamps of the key that the window has not expired
Unexpired(key) ==
    LET e == RateLimitStore_entry(store, key)
    IN  Cardinality({i \in 1..Len(e) : e[i] > now - svc[2].window})

\* the admissions of the key in the window of length "window" that starts at a
AdmittedIn(key, a) ==
    Cardinality({i \in 1..Len(admitted[key]) :
                    a <= admitted[key][i] /\ admitted[key][i] < a + svc[2].window})

\* C15: for every key the store never holds more than max_requests
\* timestamps, no window of length "window" has more than max_requests
\* admissions, and a refused request was not passed to the inner service
C15_Bounded ==
    /\ \A key \in DOMAIN store : Len(store[key]) <= svc[2].max_requests
    /\ \A key \in DOMAIN admitted : \A a \in 0..now :
          AdmittedIn(key, a) <= svc[2].max_requests
    /\ \A t \in Tasks :
          (tasks[t].pc = "done" /\ tasks[t].resp = Some(TooManyRequests)) =>
             tasks[t].seen = None

\* C15: under every interleaving, a request that finds max_requests
\* unexpired timestamps for its key is answered 429, is not admitted and is
\* not passed to the inner service
C15_RefusedWhenFull ==
    [][\A t \in Tasks :
          (/\ tasks[t].pc = "keyed"
           /\ tasks'[t].pc # "keyed"
           /\ Unexpired(tasks[t].key[2]) >= svc[2].max_requests) =>
             /\ tasks'[t].resp = Some(TooManyRequests)
             /\ tasks'[t].seen = None
             /\ admitted' = admitted]_vars

\* C15: the bounds hold in every state and the refusal at every step
C15_Theorem == []C15_Bounded /\ C15_RefusedWhenFull

\* after the clock advanced, one request is with the inner service and a
\* concurrent one under the same key was refused
C15_Witness ==
    \E t, u \in Tasks :
       /\ now >= 1
       /\ tasks[t].pc = "inner"
       /\ tasks[u].pc = "done"
       /\ tasks[u].resp = Some(TooManyRequests)
       /\ tasks[u].key = tasks[t].key
       /\ Len(store[tasks[t].key[2]]) = svc[2].max_requests

\* the text of the header before its first comma
FirstOf(v) ==
    IF \E i \in 1..Len(v) : v[i] = ","
    THEN SubSeq(v, 1, (CHOOSE i \in 1..Len(v) :
                          v[i] = "," /\ \A j \in 1..(i - 1) : v[j] # ",") - 1)
    ELSE v

NoForwardedFor(req) == "x_forwarded_for" \notin DOMAIN req.headers

\* C16: the key of a request is the first comma-separated entry of its
\* X-Forwarded-For header when the header is there (and is text), and the
\* IP address of its connection otherwise; two requests without the header
\* from different addresses are counted under different keys
C16_KeyPerClient ==
    /\ \A t \in Tasks :
          tasks[t].key # None =>
             LET req == tasks[t].req[2]
             IN  IF NoForwardedFor(req) THEN tasks[t].key[2] = req.ip
                 ELSE (\A i \in 1..Len(req.headers.x_forwarded_for) :
                          req.headers.x_forwarded_for[i] # Opaque) =>
                      tasks[t].key[2] = FirstOf(req.headers.x_forwarded_for)
    /\ \A t, u \in Tasks :
          (/\ tasks[t].key # None /\ tasks[u].key # None
           /\ NoForwardedFor(tasks[t].req[2]) /\ NoForwardedFor(tasks[u].req[2])
           /\ tasks[t].req[2].ip # tasks[u].req[2].ip) =>
             tasks[t].key # tasks[u].key

\* C17: the inner service sees the request with the configured header set:
\* to the value the request carried, or else to a generated ID, the other
\* headers as they came; the response is the inner service's with that same
\* value under the same name, in place of any value the inner service set
C17_RequestId ==
    \A t \in Tasks :
       LET T == tasks[t]
           name == svc[2].header_name
       IN  T.seen # None =>
              LET got == T.req[2].headers
                  saw == T.seen[2].headers
              IN  /\ DOMAIN saw = DOMAIN got \cup {name}
                  /\ \A n \in DOMAIN got : saw[n] = got[n]
                  /\ name \notin DOMAIN got => saw[name] \in Uuids
                  /\ T.pc = "done" =>
                        LET out == T.resp[2]
                            from == T.inner_resp[2]
                        IN  /\ out.status = from.status
                            /\ out.body = from.body
                            /\ DOMAIN out.headers = DOMAIN from.headers \cup {name}
                            /\ out.headers[name] = saw[name]
                            /\ \A n \in DOMAIN from.headers \ {name} :
                                  out.headers[n] = from.headers[n]

\* a request without the header got a generated ID, and the response carries
\* it in place of the value the inner service had set under that name
C17_Witness ==
    \E t \in Tasks :
       LET T == tasks[t]
           name == svc[2].header_name
       IN  /\ T.pc = "done"
           /\ name \notin DOMAIN T.req[2].headers
           /\ name \in DOMAIN T.inner_resp[2].headers
           /\ T.inner_resp[2].headers[name] = S_inner_id
           /\ T.resp[2].headers[name] \in Uuids

\* the bag with the handler's own insertions laid over it
Overlay(ext, written) ==
    [S \in DOMAIN ext \cup DOMAIN written |->
        IF S \in DOMAIN written THEN written[S] ELSE ext[S]]

\* C18: the bag of every Context is the extensions of its own request, as
\* they were when the closure ran, with only what its own handler inserted
\* since; the handler invoked is the one instance the route was registered
\* with, whichever request is served
C18_OwnBag ==
    \A c \in Conns :
       conns[c].ctx # None =>
          /\ SameMap(conns[c].ctx[2].extensions,
                     Overlay(conns[c].req[2].extensions, conns[c].written))
          /\ conns[c].handler = Some(router[RouteOf(router, conns[c].req[2])].ep)

\* C18: a step of one request's task leaves the other request's Context alone
C18_Isolated ==
    [][\A c, d \in Conns : (c # d /\ conns'[c] # conns[c]) => conns'[d] = conns[d]]_vars

\* C18: every bag is its own request's, and no step touches two Contexts
C18_Theorem == []C18_OwnBag /\ C18_Isolated

\* two requests are in their handlers at once on the same route: one has
\* changed AuthUser in its bag, the other's bag is still empty
C18_Witness ==
    /\ conns["c1"].pc = "handling"
    /\ conns["c2"].pc = "handling"
    /\ conns["c1"].handler = conns["c2"].handler
    /\ "AuthUser" \in DOMAIN conns["c1"].req[2].extensions
    /\ "AuthUser" \in DOMAIN conns["c1"].written
    /\ conns["c1"].ctx[2].extensions["AuthUser"] # conns["c1"].req[2].extensions["AuthUser"]
    /\ DOMAIN conns["c2"].ctx[2].extensions = {}

\* the routes the application registered: all but those build() mounts
UserRoutes == {k \in DOMAIN router : router[k].branch # "docs"}

\* C19: while the builder is open there is no document and no listener; the
\* listener is bound, and requests are taken, only once build() has run;
\* the document build() finished has the operation of every registered route
C19_Finalized ==
    /\ phase = "building" => (doc = None /\ listener = "none")
    /\ listener # "none" => phase = "built"
    /\ pc # "idle" => listener = "bound"
    /\ (phase = "built" /\ IsSome(openapi)) =>
          /\ IsSome(doc)
          /\ doc[2] = {[path |-> k[1], verb |-> k[2], handler |-> router[k].ep,
                         operation |-> router[k].op] : k \in UserRoutes}
          /\ Cardinality(doc[2]) = nreg

\* C19: once build() has returned, no route is registered and the document
\* is not modified
C19_Frozen ==
    [][phase = "built" =>
          (phase' = "built" /\ doc' = doc /\ router' = router /\ nreg' = nreg)]_vars

\* C19: the document is finished before the listener is bound, and stays
C19_Theorem == []C19_Finalized /\ C19_Frozen

\* a server started with ServerBuilder::serve is handling a request, its
\* document holding the two registered operations
C19_Witness ==
    /\ phase = "built"
    /\ listener = "bound"
    /\ IsSome(doc)
    /\ Cardinality(doc[2]) = 2
    /\ pc = "handling"

\* a register() call for a verb of a path that the router already serves
DuplicateRegistration == nreg' = nreg + 1 /\ DOMAIN router' = DOMAIN router

\* C20: a second registration of the same path and method succeeds and
\* replaces the handler of the first
C20_LaterOverwrites ==
    [][DuplicateRegistration =>
          (phase' = "building" /\ \E k \in DOMAIN router : router'[k].ep # router[k].ep)]_vars

\* C20 (amended): a second registration of the same path and method panics
\* (axum: overlapping method route) with the router as it was; after it
\* nothing is built and no request is served
C20_DuplicatePanics ==
    /\ [][DuplicateRegistration => (phase' = "panicked" /\ router' = router)]_vars
    /\ [][phase = "panicked" => phase' = "panicked"]_vars
    /\ [](phase = "panicked" => (pc = "idle" /\ listener = "none"))

\* register(GetUser) then register(GetUserV2), both GET /users/:id
C20_Witness ==
    /\ phase = "panicked"
    /\ nreg = 2
    /\ DOMAIN router = {<<"/users/:id", "GET">>}

\* the redirect family of the response envelope and its statuses
RedirectTags ==
    {"MovedPermanently", "Found", "SeeOther", "TemporaryRedirect", "PermanentRedirect"}

RedirectStatus(tag) ==
    CASE tag = "MovedPermanently" -> 301 [] tag = "Found" -> 302
      [] tag = "SeeOther" -> 303 [] tag = "TemporaryRedirect" -> 307
      [] tag = "PermanentRedirect" -> 308

\* C21: the envelope has the five redirect tags, and a redirect converts to
\* its 3xx status with a Location header and no body
C21_RedirectFamily ==
    /\ RedirectTags \subseteq ApiTags
    /\ (Converted /\ envelope[2].tag \in RedirectTags) =>
          /\ wire[2].status = RedirectStatus(envelope[2].tag)
          /\ "location" \in DOMAIN wire[2].headers
          /\ wire[2].body = EmptyBody

\* the position of the last call of one of the kinds, 0 when there is none
LastCall(kinds) ==
    LET at == {i \in 1..Len(calls) : calls[i].op \in kinds}
    IN  IF at = {} THEN 0 ELSE CHOOSE i \in at : \A j \in at : j <= i

\* the last with_config passed a config with docs off, and no with_openapi
\* call follows it
DocsDisabledLast ==
    /\ LastCall({"with_config"}) > 0
    /\ ~calls[LastCall({"with_config"})].arg.docs
    /\ LastCall({"with_openapi"}) < LastCall({"with_config"})

DocsMounted == \E k \in DOMAIN router : router[k].branch = "docs"

\* C22: a server built after the configuration disabled the documentation
\* mounts no documentation route
C22_DocsDisabled == (phase = "built" /\ DocsDisabledLast) => ~DocsMounted

\* the endpoint behind an operation of the document
Documented(o) == {E \in DocumentedEndpoints : E.id = o.handler}

\* C23: in the finished document an operation is marked deprecated exactly
\* when the Meta of its endpoint has the deprecated flag set
C23_DeprecatedMarked ==
    IsSome(doc) =>
      \A o \in doc[2] : \A E \in Documented(o) :
          o.operation.deprecated = Endpoint_meta(E).deprecated

\* the operation parameter a descriptor stands for
AsParameter(d) ==
    [name |-> d.name, description |-> d.description, required |-> d.required,
     schema |-> "string"]

DeclaredParameters(rt) ==
    [i \in 1..Len(rt.query_params) |-> AsParameter(rt.query_params[i])]
      \o [i \in 1..Len(rt.path_params) |-> AsParameter(rt.path_params[i])]

\* the operation as the closure is to leave it, the callback applied last
Annotated(E) ==
    LET meta == Endpoint_meta(E)
        base == [Operation_default EXCEPT
                   !.parameters = DeclaredParameters(E.route),
                   !.summary = Some(IF IsSome(meta.summary) THEN meta.summary[2] ELSE ""),
                   !.description = meta.description,
                   !.tags = meta.tags]
    IN  IF IsSome(meta.response_config)
        THEN ResponseCallback(meta.response_config[2], base)
        ELSE base

\* C25: the operation of every route has one parameter per query and per
\* path descriptor, in declaration order, typed "string", then the summary,
\* description and tags of the Meta, then what the callback made of it
C25_OperationAnnotated ==
    IsSome(doc) =>
      \A o \in doc[2] : \A E \in Documented(o) :
          /\ [i \in 1..Len(o.operation.parameters) |->
                AsParameter(o.operation.parameters[i])] = Annotated(E).parameters
          /\ o.operation.summary = Annotated(E).summary
          /\ o.operation.description = Annotated(E).description
          /\ o.operation.tags = Annotated(E).tags
          /\ o.operation.responses = Annotated(E).responses

\* C28: every security requirement of an operation of the document names a
\* scheme defined in the document's components
C28_NoDanglingSecurity ==
    IsSome(doc) =>
      \A o \in doc[2] : \A i \in DOMAIN o.operation.security :
          o.operation.security[i] \in schemes

\* the address the calls made so far configure
ConfiguredAddress ==
    LET i == LastCall({"bind", "with_config"})
    IN  IF i = 0 THEN Addr_default
        ELSE IF calls[i].op = "bind" THEN calls[i].arg ELSE calls[i].arg.bind

\* the socket address a text denotes, if any
Denotes(addr) ==
    CASE addr = Addr_default -> Some([ip |-> <<127, 0, 0, 1>>, port |-> 3000])
      [] addr = Addr_any -> Some([ip |-> <<0, 0, 0, 0>>, port |-> 8080])
      [] OTHER -> None

\* C24: the builder's address is that of the last bind or with_config call,
\* the default when there was none, whatever other calls were made, and a
\* built Server has the socket address it denotes
C24_Address ==
    /\ address = ConfiguredAddress
    /\ phase = "building" => server = None
    /\ phase = "built" => (IsSome(server) /\ server = Denotes(ConfiguredAddress))

\* a build() call: the builder is consumed without a route being added
BuildCall == phase = "building" /\ phase' # "building" /\ nreg' = nreg

\* C24: build() panics exactly when the address is not a socket address
C24_BuildPanics ==
    [][BuildCall => (phase' = "panicked" <=> Denotes(ConfiguredAddress) = None)]_vars

\* C24: the address follows the most recent bind or with_config, is left
\* alone by every other builder call, and build() panics when it is invalid
C24_Theorem == []C24_Address /\ C24_BuildPanics

\* bind("localhost:3000") overridden by a with_config, then a route and a
\* layer added, then built on the config's address
C24_Witness ==
    /\ phase = "built"
    /\ Len(calls) = 2
    /\ calls[1] = [op |-> "bind", arg |-> Addr_localhost]
    /\ calls[2].op = "with_config"
    /\ nreg = 1 /\ nlayer = 1
    /\ server = Some([ip |-> <<0, 0, 0, 0>>, port |-> 8080])

\* the list of a Route a ParamBuilder points into
ListOf(rt, kind) == IF kind = "Query" THEN rt.query_params ELSE rt.path_params

OtherKind(kind) == IF kind = "Query" THEN "Path" ELSE "Query"

Fresh(name) == [name |-> name, description |-> None, required |-> FALSE]

\* a step of Route::query or Route::path_param: a ParamBuilder is handed out
Appends == IsSome(route) /\ pbuilder = None /\ IsSome(pbuilder')

\* a step of required() or desc(): the ParamBuilder is consumed
Configures == IsSome(pbuilder) /\ pbuilder' = None /\ route' # route

\* C26: query / path_param append one fresh descriptor, of any name, at the
\* end of their own list and change nothing else of the Route
C26_Appends ==
    [][Appends =>
          LET kind == pbuilder'[2].kind
              old == ListOf(route[2], kind)
              new == ListOf(route'[2], kind)
          IN  /\ Len(new) = Len(old) + 1
              /\ pbuilder'[2].idx = Len(old)
              /\ \E name \in ParamNames : new = Append(old, Fresh(name))
              /\ ListOf(route'[2], OtherKind(kind)) = ListOf(route[2], OtherKind(kind))
              /\ route'[2].path = route[2].path
              /\ route'[2].method = route[2].method]_vars

\* C26: required() and desc() change one field of the descriptor appended
\* last to the list, and nothing else of the Route
C26_Configures ==
    [][Configures =>
          LET kind == pbuilder[2].kind
              old == ListOf(route[2], kind)
              new == ListOf(route'[2], kind)
              n == Len(old)
          IN  /\ Len(new) = n
              /\ \A i \in 1..(n - 1) : new[i] = old[i]
              /\ new[n].name = old[n].name
              /\ \/ new[n] = [old[n] EXCEPT !.required = TRUE]
                 \/ \E text \in {"Page number"} :
                       new[n] = [old[n] EXCEPT !.description = Some(text)]
              /\ ListOf(route'[2], OtherKind(kind)) = ListOf(route[2], OtherKind(kind))
              /\ route'[2].path = route[2].path
              /\ route'[2].method = route[2].method]_vars

\* C26: append and configure touch the new descriptor only
C26_Theorem == C26_Appends /\ C26_Configures

\* on POST /echo, which has no placeholder: a query descriptor left as
\* appended, a second one with the empty name made required, and a path
\* descriptor "page" described
C26_Witness ==
    /\ IsSome(route) /\ pbuilder = None
    /\ route[2].path = "/echo"
    /\ route[2].query_params =
          <<Fresh("id"), [name |-> "", description |-> None, required |-> TRUE]>>
    /\ route[2].path_params =
          <<[name |-> "page", description |-> Some("Page number"), required |-> FALSE]>>

\* a call of a typed accessor has returned
TypedCall == presult # None /\ presult[2].op = "get_T"

\* C27: get_T(key) is Some(x) exactly when parse::<T>(key) is Ok(x), and
\* None exactly when parse::<T>(key) is a Missing or an InvalidType error
C27_AccessorsAgree ==
    TypedCall =>
      LET out == presult[2].out
          parsed == Store_parse(pstore[2], presult[2].key, presult[2].ty)
      IN  /\ IsSome(out) <=> IsOk(parsed)
          /\ IsSome(out) => out[2] = parsed[2]
          /\ out = None <=> (~IsOk(parsed) /\ (IsMissing(parsed) \/ IsInvalidType(parsed)))

\* get_u64("id") on a Path holding id = "42" returned Some(42)
C27_Witness ==
    /\ TypedCall
    /\ pstore[2].kind = "Path"
    /\ presult[2].key = "id" /\ presult[2].ty = "u64"
    /\ Store_get(pstore[2], "id") = Some(<<"4", "2">>)
    /\ presult[2].out = Some(42)

====
